---- MODULE Spec2Model ----
(***************************************************************************)
(* A model of the analysis engine of sybil-shield (src/lib/analyze.ts,     *)
(* src/lib/profile.ts).  analyzeLogs is modelled stage by stage, one       *)
(* action per stage between two progress reports; the caller's log vector  *)
(* is built event by event before the call.                                *)
(* The request limiter (src/lib/rateLimit.ts) and the API route handlers   *)
(* that stand in front of it are modelled beside it, one action per        *)
(* handler.                                                                *)
(*                                                                         *)
(* Representation                                                          *)
(*  - an optional field is a sequence of length <= 1 (<<>> is undefined);  *)
(*  - a timestamp is the result of new Date(s).getTime(): <<ms>> for a     *)
(*    string that parses, <<>> (NaN) for one that does not;                *)
(*  - a JavaScript Set / Map / object keyed by non-numeric strings is a    *)
(*    duplicate-free sequence in insertion order;                          *)
(*  - a number in [0,1] computed in floating point is kept in fixed        *)
(*    point, in units of 1/Scale, divisions rounding towards -infinity;    *)
(*  - a URL string is the record of its parts [scheme, host, path, trail], *)
(*    host a sequence of labels and trail what follows the path: runs of   *)
(*    blanks (" ") alternating with runs of the characters )]}>,. (".");   *)
(*    a word of a bio that is no URL has scheme "".                        *)
(***************************************************************************)
EXTENDS Integers, Sequences, FiniteSets, TLC

VARIABLES logs, settings, now, pc, progress, actorProfiles, linksByActor,
          nodes, edges, elements, clusters, waves, scorecards,
          buckets, serverTime, calls, response

vars == <<logs, settings, now, pc, progress, actorProfiles, linksByActor,
          nodes, edges, elements, clusters, waves, scorecards,
          buckets, serverTime, calls, response>>

(* Bound of the model: the longest log vector.                              *)
MaxLogs == 3

(* Fixed-point unit of the scores.                                          *)
Scale == 10 ^ 6

----------------------------------------------------------------------------
(* Generic helpers for insertion-ordered collections.                       *)

Range(s) == {s[i] : i \in 1..Len(s)}

Has(s, x) == \E i \in 1..Len(s) : s[i] = x

(* Set.prototype.add on an insertion-ordered set. *)
SetAdd(s, x) == IF Has(s, x) THEN s ELSE Append(s, x)

RECURSIVE AddAll(_, _)
AddAll(s, xs) == IF xs = <<>> THEN s ELSE AddAll(SetAdd(s, Head(xs)), Tail(xs))

(* The distinct values of a sequence in order of first occurrence. *)
Distinct(s) == AddAll(<<>>, s)

RECURSIVE SumSeq(_)
SumSeq(s) == IF s = <<>> THEN 0 ELSE Head(s) + SumSeq(Tail(s))

Min2(a, b) == IF a <= b THEN a ELSE b

Max2(a, b) == IF a >= b THEN a ELSE b

(* Optional values. *)
Undefined == <<>>
Some(v) == <<v>>
IsDefined(o) == o # <<>>
Val(o) == o[1]

----------------------------------------------------------------------------
(* src/lib/profile.ts                                                       *)

(* candidate.trim().replace(/[)\]}>,.]+$/g, '') *)
(* trim() drops a final run of blanks, the replace then drops one final run *)
(* of punctuation; what stood before that run stays, blanks included.       *)
sanitizeUrlCandidate(raw) ==
  LET dropFinal(t, run) == IF t # <<>> /\ t[Len(t)] = run THEN SubSeq(t, 1, Len(t) - 1) ELSE t
  IN [raw EXCEPT !.trail = dropFinal(dropFinal(raw.trail, " "), ".")]

(* An all-blank or all-punctuation string sanitizes to ''. *)
IsEmptyString(u) == u.scheme = "" /\ u.host = <<>> /\ u.path = "" /\ u.trail = <<>>

(* new URL(url) parses and the protocol is http: or https:.  The parser    *)
(* drops blanks at the end of its input and escapes a blank in the path; a *)
(* blank in the host makes it fail.                                        *)
isValidHttpUrl(u) ==
  LET t == u.trail
      rest == IF t # <<>> /\ t[Len(t)] = " " THEN SubSeq(t, 1, Len(t) - 1) ELSE t
  IN /\ u.scheme \in {"http", "https"}
     /\ u.host # <<>>
     /\ u.path # "" \/ ~Has(rest, " ")

RECURSIVE normalizeLoop(_, _)
normalizeLoop(links, deduped) ==
  IF links = <<>> THEN deduped
  ELSE LET candidate == sanitizeUrlCandidate(Head(links))
       IN IF IsEmptyString(candidate) \/ ~isValidHttpUrl(candidate) \/ Has(deduped, candidate)
          THEN normalizeLoop(Tail(links), deduped)
          ELSE normalizeLoop(Tail(links), Append(deduped, candidate))

normalizeLinks(links) == normalizeLoop(links, <<>>)

(* bio.match(/(https?:\/\/[^\s]+)/g): the words of the bio that are URLs. *)
UrlWord(w) == w.scheme \in {"http", "https"}

extractLinks(bio) == normalizeLinks(SelectSeq(bio, UrlWord))

suspiciousDomains ==
  { <<"bit", "ly">>, <<"tinyurl", "com">>, <<"t", "co">>, <<"goo", "gl">>,
    <<"rebrand", "ly">>, <<"cutt", "ly">>, <<"is", "gd">>, <<"s", "id">>,
    <<"shorturl", "at">>, <<"talent", "app">>, <<"spam", "example", "com">> }

(* Labels that start with xn-- and labels made of digits, among the labels  *)
(* the model uses.                                                          *)
PunycodeLabels == {"xn--pple-43d"}
DigitLabels == {"10", "0", "1"}

EndsWith(s, suffix) ==
  /\ Len(suffix) <= Len(s)
  /\ SubSeq(s, Len(s) - Len(suffix) + 1, Len(s)) = suffix

isSuspiciousDomain(u) ==
  IF ~(u.scheme # "" /\ u.host # <<>>) THEN FALSE
  ELSE LET hostname == u.host
           domain == IF Len(hostname) > 1 /\ hostname[1] = "www" THEN Tail(hostname) ELSE hostname
       IN \/ domain[1] \in PunycodeLabels
          \/ Len(domain) = 4 /\ \A i \in 1..4 : domain[i] \in DigitLabels
          \/ \E blocked \in suspiciousDomains : EndsWith(domain, blocked)

linkDiversityScore(links) ==
  IF Len(links) = 0 THEN Scale
  ELSE (Cardinality({links[i].host : i \in 1..Len(links)}) * Scale) \div Len(links)

(* followerCount / followingCount < 0.1 without the division. *)
updateProfileAnomalyScore(links, followerCount, followingCount) ==
  LET ratio == IF IsDefined(followerCount) /\ IsDefined(followingCount) /\ Val(followingCount) > 0
                  /\ 10 * Val(followerCount) < Val(followingCount)
               THEN 5 * (Scale \div 10) ELSE 0
      susp == IF \E i \in 1..Len(links) : isSuspiciousDomain(links[i]) THEN 3 * (Scale \div 10) ELSE 0
      div == IF linkDiversityScore(links) < Scale \div 2 THEN 2 * (Scale \div 10) ELSE 0
  IN Min2(ratio + susp + div, Scale)

(* linksByActor is a function actor -> link list. *)
computeSharedLinksByActor(lba) ==
  LET actorsByLink(link) == {a \in DOMAIN lba : Has(normalizeLinks(lba[a]), link)}
      Shared(link) == Cardinality(actorsByLink(link)) > 1
  IN [a \in DOMAIN lba |-> SelectSeq(normalizeLinks(lba[a]), Shared)]

----------------------------------------------------------------------------
(* src/lib/analyze.ts: settings and the clock-free parts of analyzeLogs     *)

EmptyProfile ==
  [bio |-> <<>>, links |-> Undefined, followerCount |-> Undefined,
   followingCount |-> Undefined, actorCreatedAt |-> Undefined]

(* One iteration of the profile fold: a field is overwritten by every event *)
(* that carries it; an empty bio (falsy) does not overwrite, an empty links *)
(* array (truthy) does.                                                     *)
FoldProfile(p, log) ==
  [bio |-> IF log.bio # <<>> THEN log.bio ELSE p.bio,
   links |-> IF IsDefined(log.links) THEN Some(normalizeLinks(Val(log.links))) ELSE p.links,
   followerCount |-> IF IsDefined(log.followerCount) THEN log.followerCount ELSE p.followerCount,
   followingCount |-> IF IsDefined(log.followingCount) THEN log.followingCount ELSE p.followingCount,
   actorCreatedAt |-> IF IsDefined(log.actorCreatedAt) THEN log.actorCreatedAt ELSE p.actorCreatedAt]

RECURSIVE ProfileOf(_, _, _)
ProfileOf(L, actor, p) ==
  IF L = <<>> THEN p
  ELSE ProfileOf(Tail(L), actor, IF Head(L).actor = actor THEN FoldProfile(p, Head(L)) ELSE p)

Actors(L) == {L[i].actor : i \in 1..Len(L)}

collectProfiles(L) == [a \in Actors(L) |-> ProfileOf(L, a, EmptyProfile)]

collectLinksByActor(ap) ==
  [a \in DOMAIN ap |->
     LET fromProfile == IF IsDefined(ap[a].links) THEN Val(ap[a].links) ELSE <<>>
         fromBio == IF ap[a].bio # <<>> THEN extractLinks(ap[a].bio) ELSE <<>>
     IN normalizeLinks(fromProfile \o fromBio)]

(* bio.toLowerCase().replace(/\s+/g, ' ').trim(): the words in lower case.  *)
(* The words of the model are lower-case already.                           *)
normalizedBio(p) == p.bio

bioCount(ap, bio) == Cardinality({a \in DOMAIN ap : normalizedBio(ap[a]) = bio})

(* Graph builder. *)
RECURSIVE buildNodes(_, _)
buildNodes(L, acc) ==
  IF L = <<>> THEN acc
  ELSE buildNodes(Tail(L), SetAdd(SetAdd(acc, Head(L).actor), Head(L).target))

IsPositive(S, log) == log.action \in S.positiveActions

(* A builder that keeps one edge per ordered pair. *)
RECURSIVE buildDistinctEdges(_, _)
buildDistinctEdges(L, S) ==
  IF L = <<>> THEN <<>>
  ELSE LET e == [source |-> L[Len(L)].actor, target |-> L[Len(L)].target]
           before == buildDistinctEdges(SubSeq(L, 1, Len(L) - 1), S)
       IN IF IsPositive(S, L[Len(L)]) /\ ~Has(before, e) THEN Append(before, e) ELSE before

RECURSIVE buildEdges(_, _)
buildEdges(L, S) ==
  IF L = <<>> THEN <<>>
  ELSE IF IsPositive(S, Head(L))
       THEN <<[source |-> Head(L).actor, target |-> Head(L).target]>> \o buildEdges(Tail(L), S)
       ELSE buildEdges(Tail(L), S)

positiveOut(E, n) == {E[i].target : i \in {j \in 1..Len(E) : E[j].source = n}}

(* elements = [...nodeElements, ...edges] *)
buildElements(N, E) ==
  [i \in 1..Len(N) |-> [kind |-> "node", id |-> N[i], label |-> N[i], source |-> "", target |-> ""]]
  \o [i \in 1..Len(E) |-> [kind |-> "edge", id |-> "", label |-> "", source |-> E[i].source, target |-> E[i].target]]

(* graph[n]: the adjacency list, one entry per edge end; an edge with an    *)
(* empty endpoint is skipped.                                               *)
(* An adjacency that follows an edge from its source only. *)
RECURSIVE buildOutAdjacency(_, _)
buildOutAdjacency(E, n) ==
  IF E = <<>> THEN <<>>
  ELSE LET s == Head(E).source
           t == Head(E).target
           mine == IF s = "" \/ t = "" THEN <<>> ELSE (IF s = n THEN <<t>> ELSE <<>>)
       IN mine \o buildOutAdjacency(Tail(E), n)

RECURSIVE buildAdjacency(_, _)
buildAdjacency(E, n) ==
  IF E = <<>> THEN <<>>
  ELSE LET s == Head(E).source
           t == Head(E).target
           mine == IF s = "" \/ t = "" THEN <<>>
                   ELSE (IF s = n THEN <<t>> ELSE <<>>) \o (IF t = n THEN <<s>> ELSE <<>>)
       IN mine \o buildAdjacency(Tail(E), n)

buildGraph(N, E) == [n \in Range(N) |-> buildAdjacency(E, n)]

(* A traversal that looks at the first neighbour of a node only. *)
pushFirstNeighbor(neigh, stack, visited) ==
  IF neigh = <<>> \/ Head(neigh) \in visited THEN [stack |-> stack, visited |-> visited]
  ELSE [stack |-> Append(stack, Head(neigh)), visited |-> visited \cup {Head(neigh)}]

(* for (const neighbor of graph[node]) { if visited continue; visited.add; stack.push } *)
RECURSIVE pushNeighbors(_, _, _)
pushNeighbors(neigh, stack, visited) ==
  IF neigh = <<>> THEN [stack |-> stack, visited |-> visited]
  ELSE IF Head(neigh) \in visited
       THEN pushNeighbors(Tail(neigh), stack, visited)
       ELSE pushNeighbors(Tail(neigh), Append(stack, Head(neigh)), visited \cup {Head(neigh)})

RECURSIVE dfsLoop(_, _, _, _)
dfsLoop(graph, stack, visited, component) ==
  IF stack = <<>> THEN [visited |-> visited, component |-> component]
  ELSE LET node == stack[Len(stack)]
           popped == SubSeq(stack, 1, Len(stack) - 1)
           nxt == pushNeighbors(graph[node], popped, visited)
       IN dfsLoop(graph, nxt.stack, nxt.visited, Append(component, node))

dfs(graph, start, visited) == dfsLoop(graph, <<start>>, visited \cup {start}, <<>>)

(* The metrics of one component. *)
clusterOf(graph, component, id) ==
  LET memberSet == Range(component)
      inside(n) == Len(SelectSeq(graph[n], LAMBDA x : x \in memberSet))
      outside(n) == Len(SelectSeq(graph[n], LAMBDA x : x \notin memberSet))
      internalEdges == SumSeq([i \in 1..Len(component) |-> inside(component[i])]) \div 2
      possibleEdges == (Len(component) * (Len(component) - 1)) \div 2
      externalEdges == SumSeq([i \in 1..Len(component) |-> outside(component[i])])
      totalEdges == internalEdges + externalEdges
  IN [clusterId |-> id,
      members |-> component,
      density |-> IF possibleEdges > 0 THEN (internalEdges * Scale) \div possibleEdges ELSE 0,
      conductance |-> IF totalEdges > 0 THEN (externalEdges * Scale) \div totalEdges ELSE 0,
      externalEdges |-> externalEdges]

RECURSIVE clusterLoop(_, _, _, _, _)
clusterLoop(graph, todo, visited, acc, S) ==
  IF todo = <<>> THEN acc
  ELSE IF Head(todo) \in visited THEN clusterLoop(graph, Tail(todo), visited, acc, S)
  ELSE LET r == dfs(graph, Head(todo), visited)
       IN IF Len(r.component) < S.minClusterSize
          THEN clusterLoop(graph, Tail(todo), r.visited, acc, S)
          ELSE clusterLoop(graph, Tail(todo), r.visited,
                           Append(acc, clusterOf(graph, r.component, Len(acc))), S)

findClusters(N, E, S) == clusterLoop(buildGraph(N, E), N, {}, <<>>, S)

----------------------------------------------------------------------------
(* Time.  Timestamps are whole seconds since the epoch: every duration the  *)
(* code keeps in milliseconds is kept here in seconds.                      *)

IsFinite(ts) == ts # <<>>

HasInvalidTimestamp(L) == \E i \in 1..Len(L) : ~IsFinite(L[i].timestamp)

ValidLogs(L) == SelectSeq(L, LAMBDA l : IsFinite(l.timestamp))

TimeOf(l) == Val(l.timestamp)

SetMin(S) == CHOOSE x \in S : \A y \in S : x <= y

SetMax(S) == CHOOSE x \in S : \A y \in S : x >= y

(* Array.prototype.sort with a numeric comparator is stable. *)
RECURSIVE InsertByTs(_, _)
InsertByTs(sorted, x) ==
  IF sorted = <<>> THEN <<x>>
  ELSE IF Head(sorted).ts <= x.ts THEN <<Head(sorted)>> \o InsertByTs(Tail(sorted), x)
  ELSE <<x>> \o sorted

RECURSIVE SortByTs(_, _)
SortByTs(todo, sorted) ==
  IF todo = <<>> THEN sorted ELSE SortByTs(Tail(todo), InsertByTs(sorted, Head(todo)))

RECURSIVE Flatten(_)
Flatten(ss) == IF ss = <<>> THEN <<>> ELSE Head(ss) \o Flatten(Tail(ss))

(* Largest r with r * r <= x. *)
RECURSIVE SqrtSearch(_, _, _)
SqrtSearch(x, lo, hi) ==
  IF lo >= hi THEN lo
  ELSE LET mid == (lo + hi + 1) \div 2
       IN IF mid * mid <= x THEN SqrtSearch(x, mid, hi) ELSE SqrtSearch(x, lo, mid - 1)

ISqrt(x) == SqrtSearch(x, 0, Min2(x, 46340))

----------------------------------------------------------------------------
(* Fixed-bin waves.                                                         *)

binSizeOf(S) == Max2(1, S.timeBinMinutes) * 60

(* A bin that starts at the event itself. *)
binAtEvent(S, l) == TimeOf(l)

binOf(S, l) == (TimeOf(l) \div binSizeOf(S)) * binSizeOf(S)

(* timeBins in the order Object.entries walks it: bins, then actions, then  *)
(* targets, each in insertion order.  Defined for logs whose timestamps all *)
(* parse.                                                                   *)
timeBinCells(L, S) ==
  LET bins == Distinct([i \in 1..Len(L) |-> binOf(S, L[i])])
      inBin(b) == SelectSeq(L, LAMBDA l : binOf(S, l) = b)
      actionsOf(b) == Distinct([i \in 1..Len(inBin(b)) |-> inBin(b)[i].action])
      inAction(b, a) == SelectSeq(inBin(b), LAMBDA l : l.action = a)
      targetsOf(b, a) == Distinct([i \in 1..Len(inAction(b, a)) |-> inAction(b, a)[i].target])
      hits(b, a, t) == SelectSeq(inAction(b, a), LAMBDA l : l.target = t)
      cell(b, a, t) == [bin |-> b, action |-> a, target |-> t, count |-> Len(hits(b, a, t)),
                        actors |-> Distinct([i \in 1..Len(hits(b, a, t)) |-> hits(b, a, t)[i].actor])]
      cellsOfAction(b, a) == [k \in 1..Len(targetsOf(b, a)) |-> cell(b, a, targetsOf(b, a)[k])]
      cellsOfBin(b) == Flatten([j \in 1..Len(actionsOf(b)) |-> cellsOfAction(b, actionsOf(b)[j])])
  IN Flatten([i \in 1..Len(bins) |-> cellsOfBin(bins[i])])

(* A wave filter that tests the count alone. *)
IsWaveCellByCount(S, c) == c.count >= S.waveMinCount

IsWaveCell(S, c) == c.count >= S.waveMinCount /\ Len(c.actors) >= S.waveMinActors

binWaves(L, S) ==
  LET qual == SelectSeq(timeBinCells(L, S), LAMBDA c : IsWaveCell(S, c))
  IN [i \in 1..Len(qual) |->
        [windowStart |-> qual[i].bin,
         windowEnd |-> qual[i].bin + binSizeOf(S),
         action |-> qual[i].action,
         target |-> qual[i].target,
         actors |-> qual[i].actors,
         zScore |-> (qual[i].count * Scale) \div Max2(1, S.waveMinCount),
         method |-> "bin"]]

----------------------------------------------------------------------------
(* Sliding-window bursts (detectWindowBursts).                              *)

(* id.split('::') for the identifiers of the model: an identifier that     *)
(* holds the separator falls into its parts, any other is one part.         *)
splitDoubleColon(id) ==
  CASE id = "follow::c" -> <<"follow", "c">>
    [] id = "c::d" -> <<"c", "d">>
    [] OTHER -> <<id>>

(* `${action}::${target}`, kept as the parts that split('::') gives back:   *)
(* two key strings are equal exactly when their parts are.                  *)
burstGroupKey(l) == splitDoubleColon(l.action) \o splitDoubleColon(l.target)

(* while (events[right].ts - events[left].ts > windowMs) left++ *)
RECURSIVE advanceLeft(_, _, _, _)
advanceLeft(events, left, right, windowS) ==
  IF events[right].ts - events[left].ts > windowS
  THEN advanceLeft(events, left + 1, right, windowS)
  ELSE left

(* actorCounts.keys(): the actors of events[left..right], an actor that     *)
(* left the window and came back is re-inserted at the end.                 *)
RECURSIVE windowActors(_, _, _, _, _)
windowActors(events, windowS, right, upto, acc) ==
  IF right > upto THEN acc
  ELSE LET left == advanceLeft(events, 1, right, windowS)
           alive == {events[i].actor : i \in left..right}
           kept == SelectSeq(acc, LAMBDA a : a \in alive)
       IN windowActors(events, windowS, right + 1, upto, SetAdd(kept, events[right].actor))

RECURSIVE burstScan(_, _, _, _, _, _)
burstScan(events, windowS, minCount, minActors, right, best) ==
  IF right > Len(events) THEN best
  ELSE LET left == advanceLeft(events, 1, right, windowS)
           count == right - left + 1
           actors == windowActors(events, windowS, 1, right, <<>>)
           better == count > best.count /\ count >= minCount /\ Len(actors) >= minActors
       IN burstScan(events, windowS, minCount, minActors, right + 1,
                    IF better THEN [start |-> events[left].ts, count |-> count, actors |-> actors]
                    ELSE best)

(* The span of the valid timestamps, in milliseconds. *)
(* A span of a thousand windows, whatever the timestamps are. *)
durationMsOfLong(L, windowS) == windowS * 1000 * 1000

durationMsOf(L, windowS) ==
  LET times == {TimeOf(ValidLogs(L)[i]) : i \in 1..Len(ValidLogs(L))}
  IN IF Len(ValidLogs(L)) < 2 THEN windowS * 1000
     ELSE Max2(1, (SetMax(times) - SetMin(times)) * 1000)

(* The burst of one key, <<>> when the key yields none. *)
burstOfKey(L, key, windowS, minCount, minActors) ==
  LET rows == SelectSeq(ValidLogs(L), LAMBDA l : burstGroupKey(l) = key)
      events == SortByTs([i \in 1..Len(rows) |->
                            [ts |-> TimeOf(rows[i]), actor |-> rows[i].actor]], <<>>)
      best == burstScan(events, windowS, minCount, minActors, 1,
                        [start |-> events[1].ts, count |-> 0, actors |-> <<>>])
      durationMs == durationMsOf(L, windowS)
      (* expected = events.length / durationMs * windowMs, in units of 1/Scale;
         with durationMs = 1 it is events.length * windowMs >= best.count *)
      expected == (Len(events) * windowS * Scale) \div (durationMs \div 1000)
      zMilli == (best.count * Scale - expected) \div ISqrt(Max2(1, expected))
  IN IF Len(events) < minCount THEN <<>>
     ELSE IF best.count < minCount \/ Len(best.actors) < minActors THEN <<>>
     ELSE IF durationMs < 1000 THEN <<>>
     ELSE IF zMilli < 2500 THEN <<>>
     ELSE <<[windowStart |-> best.start,
             windowEnd |-> best.start + windowS,
             action |-> key[1],
             target |-> key[2],
             actors |-> best.actors,
             zScore |-> zMilli * (Scale \div 1000),
             method |-> "window"]>>

(* bursts.sort((a, b) => b.zScore - a.zScore), stable. *)
RECURSIVE InsertByZ(_, _)
InsertByZ(sorted, x) ==
  IF sorted = <<>> THEN <<x>>
  ELSE IF Head(sorted).zScore >= x.zScore THEN <<Head(sorted)>> \o InsertByZ(Tail(sorted), x)
  ELSE <<x>> \o sorted

RECURSIVE SortByZ(_, _)
SortByZ(todo, sorted) ==
  IF todo = <<>> THEN sorted ELSE SortByZ(Tail(todo), InsertByZ(sorted, Head(todo)))

MaxBursts == 250

detectWindowBursts(L, windowS, minCount, minActors) ==
  LET usable == SelectSeq(ValidLogs(L), LAMBDA l : l.action # "" /\ l.target # "")
      keys == Distinct([i \in 1..Len(usable) |-> burstGroupKey(usable[i])])
      bursts == Flatten([i \in 1..Len(keys) |-> burstOfKey(L, keys[i], windowS, minCount, minActors)])
      sorted == SortByZ(bursts, <<>>)
  IN SubSeq(sorted, 1, Min2(Len(sorted), MaxBursts))

windowBursts(L, S) ==
  detectWindowBursts(L, Max2(1, S.burstWindowSeconds), Max2(1, S.burstMinCount), Max2(1, S.burstMinActors))

(* The keys under which waves count towards an actor's burstActions.        *)
(* id.split(':') for the identifiers of the model. *)
splitColon(id) ==
  CASE id = "c:window" -> <<"c", "window">>
    [] id = "follow::c" -> <<"follow", "", "c">>
    [] id = "c::d" -> <<"c", "", "d">>
    [] OTHER -> <<id>>

(* `${binKey}:${action}:${target}` and                                      *)
(* `${windowStart}:${action}:${target}:window`, kept as the parts between   *)
(* their colons; the ISO time, of one shape in both, is one part.  Two key  *)
(* strings are equal exactly when their parts are.                          *)
binWaveKey(w) == <<w.windowStart>> \o splitColon(w.action) \o splitColon(w.target)

windowWaveKey(w) == <<w.windowStart>> \o splitColon(w.action) \o splitColon(w.target) \o <<"window">>

burstActionsOf(W, actor) ==
  Cardinality({binWaveKey(W[i]) : i \in {j \in 1..Len(W) : W[j].method = "bin" /\ Has(W[j].actors, actor)}}
              \cup {windowWaveKey(W[i]) : i \in {j \in 1..Len(W) : W[j].method = "window" /\ Has(W[j].actors, actor)}})

detectWaves(L, S) == binWaves(L, S) \o windowBursts(L, S)

----------------------------------------------------------------------------
(* Per-actor detectors.                                                     *)

(* A number that is NaN in the code.  No comparison with it is true.        *)
NaN == 0 - 2 ^ 30

RECURSIVE InsertNum(_, _)
InsertNum(sorted, x) ==
  IF sorted = <<>> THEN <<x>>
  ELSE IF Head(sorted) <= x THEN <<Head(sorted)>> \o InsertNum(Tail(sorted), x)
  ELSE <<x>> \o sorted

RECURSIVE SortNum(_, _)
SortNum(todo, sorted) ==
  IF todo = <<>> THEN sorted ELSE SortNum(Tail(todo), InsertNum(sorted, Head(todo)))

LogsOfActor(L, actor) == SelectSeq(L, LAMBDA l : l.actor = actor)

(* actorTimes.get(actor), sorted ascending; <<>> when the map has no entry. *)
actorTimes(L, actor) ==
  LET own == LogsOfActor(ValidLogs(L), actor)
  IN SortNum([i \in 1..Len(own) |-> TimeOf(own[i])], <<>>)

(* ln(n) * 1000, for the counts the model reaches, and ln(24) * 1000.       *)
LnMilli(n) ==
  CASE n = 1 -> 0 [] n = 2 -> 693 [] n = 3 -> 1099 [] n = 4 -> 1386
    [] n = 5 -> 1609 [] n = 6 -> 1792 [] n = 7 -> 1946 [] n = 8 -> 2079
    [] n = 24 -> 3178

(* -sum p ln p over the counts cs (whose total is total), times 1000 * total *)
EntropyNumer(cs, total) ==
  total * LnMilli(total) - SumSeq([i \in 1..Len(cs) |-> cs[i] * LnMilli(cs[i])])

Clamp01(x) == Max2(0, Min2(x, Scale))

(* Math.max(0, Math.min(H / Hmax, 1)) with Hmax = ln(k), to three decimals. *)
NormalizedEntropy(cs, total, k) ==
  Clamp01(((EntropyNumer(cs, total) * 1000) \div (total * LnMilli(k))) * (Scale \div 1000))

maxActionsPerMinuteOf(L, actor) ==
  LET times == actorTimes(L, actor)
      inMinute(m) == Len(SelectSeq(times, LAMBDA t : t \div 60 = m))
  IN IF times = <<>> THEN 0
     ELSE SetMax({inMinute(times[i] \div 60) : i \in 1..Len(times)})

uniqueTargetsOf(L, actor) == {LogsOfActor(L, actor)[i].target : i \in 1..Len(LogsOfActor(L, actor))}

targetEntropyOf(L, actor) ==
  LET own == LogsOfActor(L, actor)
      targets == Distinct([i \in 1..Len(own) |-> own[i].target])
      k == Len(targets)
      counts == [i \in 1..k |-> Len(SelectSeq(own, LAMBDA l : l.target = targets[i]))]
  IN IF Len(own) <= 0 \/ k <= 1 THEN 0
     ELSE NormalizedEntropy(counts, Len(own), k)

mutualPositiveOf(E, actor) ==
  Cardinality({t \in positiveOut(E, actor) : actor \in positiveOut(E, t)})

(* detectSharedWallets: /^0x[a-fA-F0-9]{40}$/ and toLowerCase on the wallet *)
(* identifiers of the model: "0xA1" stands for an address written with      *)
(* upper-case hex digits, "0xa1" for the same address in lower case.        *)
isAddr(x) == x \in {"0xa1", "0xA1", "0xb2", "0xB2", "0xc3", "0xC3"}

toLowerCase(x) ==
  CASE x = "0xA1" -> "0xa1" [] x = "0xB2" -> "0xb2" [] x = "0xC3" -> "0xc3" [] OTHER -> x

detectSharedWallets(L, wallet) ==
  LET transfers == SelectSeq(L, LAMBDA l : l.action = "transfer" /\ isAddr(l.actor) /\ isAddr(l.target))
      funders == Distinct([i \in 1..Len(transfers) |-> toLowerCase(transfers[i].actor)])
      targetsOf(f) == {toLowerCase(transfers[i].target) :
                         i \in {j \in 1..Len(transfers) : toLowerCase(transfers[j].actor) = f}}
  IN SelectSeq(funders, LAMBDA f : Cardinality(targetsOf(f)) >= 2 /\ wallet \in targetsOf(f))

detectCrossAppLinking(L, actor) ==
  LET own == LogsOfActor(L, actor)
      platforms == Distinct([i \in 1..Len(own) |-> own[i].platform])
  IN IF Len(platforms) > 1 THEN platforms ELSE <<>>

(* The sessions of a sorted time vector: durations and separating gaps. *)
(* A scan that closes a session at a gap of the threshold itself already. *)
RECURSIVE sessionScanInclusive(_, _, _, _, _, _)
sessionScanInclusive(times, i, thresholdS, sessionStart, durations, gaps) ==
  IF i > Len(times) THEN [durations |-> Append(durations, times[Len(times)] - sessionStart), gaps |-> gaps]
  ELSE LET gap == times[i] - times[i - 1]
       IN IF gap >= thresholdS
          THEN sessionScanInclusive(times, i + 1, thresholdS, times[i],
                                    Append(durations, times[i - 1] - sessionStart), Append(gaps, gap))
          ELSE sessionScanInclusive(times, i + 1, thresholdS, sessionStart, durations, gaps)

RECURSIVE sessionScan(_, _, _, _, _, _)
sessionScan(times, i, thresholdS, sessionStart, durations, gaps) ==
  IF i > Len(times) THEN [durations |-> Append(durations, times[Len(times)] - sessionStart), gaps |-> gaps]
  ELSE LET gap == times[i] - times[i - 1]
       IN IF gap > thresholdS
          THEN sessionScan(times, i + 1, thresholdS, times[i],
                           Append(durations, times[i - 1] - sessionStart), Append(gaps, gap))
          ELSE sessionScan(times, i + 1, thresholdS, sessionStart, durations, gaps)

NoSession ==
  [sessionCount |-> 0, avgSessionMinutes |-> 0, avgGapMinutes |-> 0, maxGapMinutes |-> 0,
   bottySessionScore |-> 0]

detectSessionMetrics(L, actor, thresholdS) ==
  LET times == actorTimes(L, actor)
      r == sessionScan(times, 2, thresholdS, times[1], <<>>, <<>>)
      sessionCount == Len(r.durations)
      sumSession == SumSeq(r.durations)
      sumGap == SumSeq(r.gaps)
      maxGap == IF r.gaps = <<>> THEN 0 ELSE SetMax(Range(r.gaps))
      (* avgSessionMs <= 60000, avgSessionMs <= 300000 *)
      shortSessionScore == IF sumSession <= 60 * sessionCount THEN Scale
                           ELSE IF sumSession <= 300 * sessionCount THEN Scale \div 2 ELSE 0
      manySessionScore == Min2((sessionCount * Scale) \div 10, Scale)
  IN IF times = <<>> THEN NoSession
     ELSE [sessionCount |-> sessionCount,
           avgSessionMinutes |-> (sumSession * Scale) \div (60 * Max2(1, sessionCount)),
           avgGapMinutes |-> IF r.gaps = <<>> THEN 0 ELSE (sumGap * Scale) \div (60 * Len(r.gaps)),
           maxGapMinutes |-> (maxGap * Scale) \div 60,
           bottySessionScore |-> Min2((shortSessionScore \div 1000) * (manySessionScore \div 1000), Scale)]

(* while (times[right] - times[left] > windowMs) left++ *)
(* A scan whose window leaves out an event exactly windowMs after its first. *)
RECURSIVE velocityLeftExclusive(_, _, _, _)
velocityLeftExclusive(times, left, right, windowS) ==
  IF left < right /\ times[right] - times[left] >= windowS
  THEN velocityLeftExclusive(times, left + 1, right, windowS)
  ELSE left

RECURSIVE velocityLeft(_, _, _, _)
velocityLeft(times, left, right, windowS) ==
  IF times[right] - times[left] > windowS THEN velocityLeft(times, left + 1, right, windowS) ELSE left

RECURSIVE velocityScan(_, _, _, _, _)
velocityScan(times, windowS, left, right, maxCount) ==
  IF right > Len(times) THEN maxCount
  ELSE LET l == velocityLeft(times, left, right, windowS)
       IN velocityScan(times, windowS, l, right + 1, Max2(maxCount, right - l + 1))

NoVelocity == [maxInWindow |-> 0, maxPerSecond |-> 0, velocityScore |-> 0]

computeVelocityByActor(L, actor, windowS, velocityMaxActionsInWindow) ==
  LET times == actorTimes(L, actor)
      maxCount == velocityScan(times, windowS, 1, 1, 0)
      threshold == Max2(1, velocityMaxActionsInWindow)
  IN IF times = <<>> THEN NoVelocity
     ELSE [maxInWindow |-> maxCount,
           maxPerSecond |-> (maxCount * Scale) \div Max2(1, windowS),
           velocityScore |-> IF maxCount >= threshold
                             THEN Min2(((maxCount - threshold) * Scale) \div threshold, Scale)
                             ELSE 0]

CircadianWideHours == 20
CircadianWideTotal == 200
CircadianNarrowHours == 2
CircadianNarrowTotal == 100

NoCircadian == [hourEntropy |-> 0, activeHours |-> 0, circadianScore |-> 0]

computeCircadianByActor(L, actor) ==
  LET times == actorTimes(L, actor)
      hours == [i \in 1..Len(times) |-> (times[i] \div 3600) % 24]
      active == Distinct(hours)
      counts == [i \in 1..Len(active) |-> Len(SelectSeq(hours, LAMBDA h : h = active[i]))]
      total == Len(hours)
      wide == IF Len(active) >= CircadianWideHours /\ total >= CircadianWideTotal THEN Scale ELSE 0
      narrow == IF Len(active) <= CircadianNarrowHours /\ total >= CircadianNarrowTotal
                THEN 8 * (Scale \div 10) ELSE 0
  IN IF times = <<>> THEN NoCircadian
     ELSE [hourEntropy |-> NormalizedEntropy(counts, total, 24),
           activeHours |-> Len(active),
           circadianScore |-> Max2(wide, narrow)]

NoNgram == [repeatScore |-> 0, topNgram |-> <<>>, topCount |-> 0]

(* counts.forEach: the first gram, in insertion order, with the top count. *)
RECURSIVE topGram(_, _, _)
topGram(grams, distinct, best) ==
  IF distinct = <<>> THEN best
  ELSE LET c == Len(SelectSeq(grams, LAMBDA g : g = Head(distinct)))
       IN topGram(grams, Tail(distinct),
                  IF c > best.topCount THEN [topNgram |-> Head(distinct), topCount |-> c] ELSE best)

computeActionNgramByActor(L, actor, n) ==
  LET own == LogsOfActor(ValidLogs(L), actor)
      rows == SortByTs([i \in 1..Len(own) |-> [ts |-> TimeOf(own[i]), action |-> own[i].action]], <<>>)
      seq == SelectSeq([i \in 1..Len(rows) |-> rows[i].action], LAMBDA a : a # "")
      grams == [i \in 1..(Len(seq) - n + 1) |-> SubSeq(seq, i, i + n - 1)]
      top == topGram(grams, Distinct(grams), [topNgram |-> <<>>, topCount |-> 0])
      totalNgrams == Max2(1, Len(seq) - n + 1)
  IN IF own = <<>> \/ Len(seq) < n + 2 THEN NoNgram
     ELSE [repeatScore |-> Min2((top.topCount * Scale) \div totalNgrams, Scale),
           topNgram |-> top.topNgram,
           topCount |-> top.topCount]

(* Division rounding towards -infinity, for a divisor of either sign. *)
Div(a, b) == IF b > 0 THEN a \div b ELSE (0 - a) \div (0 - b)

(* detectFraudulentTransactions: std / (avg + 1), clamped above only.  The  *)
(* mean and the deviation are kept in thousandths.  <<>> when the map has   *)
(* no entry for the actor.                                                  *)
detectFraudulentTransactions(L, actor) ==
  LET own == SelectSeq(LogsOfActor(L, actor), LAMBDA l : IsDefined(l.amount))
      n == Len(own)
      avgMilli == (SumSeq([i \in 1..n |-> Val(own[i].amount)]) * 1000) \div n
      variance == SumSeq([i \in 1..n |-> (Val(own[i].amount) * 1000 - avgMilli) * (Val(own[i].amount) * 1000 - avgMilli)]) \div n
      stdMilli == ISqrt(variance)
      denom == avgMilli + 1000
  IN IF n < 2 THEN Undefined
     ELSE IF denom = 0 THEN (IF stdMilli = 0 THEN Some(NaN) ELSE Some(Scale))
     ELSE Some(Min2(Div(stdMilli * Scale, denom), Scale))

----------------------------------------------------------------------------
(* Scorecards.                                                              *)

clusterSizeOf(C, node) ==
  LET mine == SelectSeq(C, LAMBDA c : Has(c.members, node))
  IN IF mine = <<>> THEN 0 ELSE Len(mine[Len(mine)].members)

(* graph[node]?.length *)
connectionsOf(N, E, node) == Len(buildGraph(N, E)[node])

(* A churn count that takes each (action, target) of the actor once. *)
churnPairsOf(L, S, actor) ==
  Cardinality({<<l.action, l.target>> :
                 l \in {x \in Range(LogsOfActor(L, actor)) : x.action \in S.churnActions}})

churnActionsOf(L, S, actor) ==
  Len(SelectSeq(LogsOfActor(L, actor), LAMBDA l : l.action \in S.churnActions))

(* allTimes.length > 0 ? Math.min(...allTimes) : Date.now() *)
datasetStartOf(L, clock) ==
  IF ValidLogs(L) = <<>> THEN clock
  ELSE SetMin({TimeOf(ValidLogs(L)[i]) : i \in 1..Len(ValidLogs(L))})

SecondsPerDay == 86400
NewAccountDays == 7

(* An account age counted up to the time of the call. *)
newAccountScoreAtCallTime(L, clock, profile, actor) ==
  LET createdAt == profile.actorCreatedAt
      createdMs == Val(createdAt)
      age == clock - Val(createdMs)
  IN IF ~IsDefined(createdAt) THEN 0
     ELSE IF ~IsFinite(createdMs) \/ Val(createdMs) = 0 THEN 0
     ELSE IF age >= 0 /\ age < NewAccountDays * SecondsPerDay THEN Scale ELSE 0

newAccountScoreOf(L, clock, profile, actor) ==
  LET createdAt == profile.actorCreatedAt
      createdMs == Val(createdAt)
      times == actorTimes(L, actor)
      firstSeen == IF times = <<>> THEN datasetStartOf(L, clock) ELSE times[1]
      age == firstSeen - Val(createdMs)
  IN IF ~IsDefined(createdAt) THEN 0
     ELSE IF ~IsFinite(createdMs) \/ Val(createdMs) = 0 THEN 0
     ELSE IF age >= 0 /\ age < NewAccountDays * SecondsPerDay THEN Scale ELSE 0

(* (maxApm - t) / t for maxApm >= max(1, t); t = 0 divides by zero: +Infinity *)
rapidActionScoreOf(maxApm, t) ==
  IF maxApm >= Max2(1, t)
  THEN (IF t = 0 THEN Scale ELSE Min2(Div((maxApm - t) * Scale, t), Scale))
  ELSE 0

Reason(clause, value) == [clause |-> clause, value |-> value]

ThresholdClause == "Score >= threshold"

(* reasons.push in the order of the code.  The clause texts carry one       *)
(* number each; the clauses on phishing-like URLs, handle patterns,         *)
(* PageRank and betweenness rest on signals this model does not carry.      *)
(* A threshold clause given at the threshold as well as above it. *)
thresholdReasonInclusive(S, c) ==
  IF c.sybilScore # NaN /\ c.sybilScore >= S.threshold
  THEN <<Reason(ThresholdClause, c.sybilScore)>> ELSE <<>>

(* if (sybilScore > settings.threshold) reasons.push(...): a NaN score      *)
(* compares false.                                                          *)
thresholdReasonOf(S, c) ==
  IF c.sybilScore # NaN /\ c.sybilScore > S.threshold
  THEN <<Reason(ThresholdClause, c.sybilScore)>> ELSE <<>>

reasonsOf(S, c, clusterSize, totalActions) ==
  thresholdReasonOf(S, c)
  \o (IF c.coordinationScore >= Scale \div 2 THEN <<Reason("High coordination", c.coordinationScore)>> ELSE <<>>)
  \o (IF c.churnScore >= 5 THEN <<Reason("High churn", c.churnScore)>> ELSE <<>>)
  \o (IF c.clusterIsolationScore >= Scale \div 2 /\ clusterSize >= S.minClusterSize
      THEN <<Reason("Cluster isolation", c.clusterIsolationScore)>> ELSE <<>>)
  \o (IF c.lowDiversityScore >= 7 * (Scale \div 10) THEN <<Reason("Low target diversity", c.lowDiversityScore)>> ELSE <<>>)
  \o (IF Len(c.suspiciousLinks) > 0 THEN <<Reason("Suspicious link domains", Len(c.suspiciousLinks))>> ELSE <<>>)
  \o (IF Len(c.sharedLinks) > 0 THEN <<Reason("Shared links with others", Len(c.sharedLinks))>> ELSE <<>>)
  \o (IF c.bioSimilarityScore >= 4 * (Scale \div 10) THEN <<Reason("Repeated bio text", c.bioSimilarityScore)>> ELSE <<>>)
  \o (IF c.newAccountScore = Scale THEN <<Reason("New account (<7 days)", 0)>> ELSE <<>>)
  \o (IF c.maxActionsPerMinute >= S.rapidActionsPerMinuteThreshold
      THEN <<Reason("Rapid actions", c.maxActionsPerMinute)>> ELSE <<>>)
  \o (IF c.velocityScore >= 7 * (Scale \div 10) THEN <<Reason("High velocity", c.maxActionsPerVelocityWindow)>> ELSE <<>>)
  \o (IF c.actionSequenceRepeatScore >= 7 * (Scale \div 10) /\ c.topActionNgram # <<>>
      THEN <<Reason("Script-like sequence", c.topActionNgramCount)>> ELSE <<>>)
  \o (IF c.circadianScore >= 8 * (Scale \div 10) THEN <<Reason("Unnatural circadian pattern", c.activeHours)>> ELSE <<>>)
  \o (IF totalActions >= S.entropyMinTotalActions /\ c.lowEntropyScore >= 7 * (Scale \div 10)
      THEN <<Reason("Low target entropy", c.targetEntropy)>> ELSE <<>>)
  \o (IF Len(c.sharedWallets) > 0 THEN <<Reason("Shared funders", Len(c.sharedWallets))>> ELSE <<>>)
  \o (IF Len(c.crossAppPlatforms) > 0 THEN <<Reason("Cross-app activity", Len(c.crossAppPlatforms))>> ELSE <<>>)
  \o (IF c.sessionCount > 5 THEN <<Reason("High session count", c.sessionCount)>> ELSE <<>>)
  \o (IF c.fraudTxScore # NaN /\ c.fraudTxScore > Scale \div 2
      THEN <<Reason("Fraudulent transaction patterns", c.fraudTxScore)>> ELSE <<>>)

(* The weighted base and the boosters; the weights are hundredths. *)
baseScoreOf(c) ==
  30 * c.coordinationScore
  + 20 * Min2((c.churnScore * Scale) \div 10, Scale)
  + 15 * c.clusterIsolationScore
  + 10 * c.newAccountScore
  + 10 * c.lowDiversityScore
  + 15 * c.profileAnomalyScore

boostersOf(c, S, totalActions, sharedWalletScore, crossAppScore, sessionScore) ==
  10 * c.rapidActionScore
  + 5 * (IF totalActions >= S.entropyMinTotalActions THEN c.lowEntropyScore ELSE 0)
  + 5 * c.velocityScore
  + 3 * c.actionSequenceRepeatScore
  + 3 * c.circadianScore
  + 5 * sharedWalletScore
  + 5 * crossAppScore
  + 5 * sessionScore
  + 5 * c.fraudTxScore

(* A score that is cut off at the threshold. *)
sybilScoreCappedAtThreshold(c, S, totalActions, sharedWalletScore, crossAppScore, sessionScore) ==
  LET boost == boostersOf(c, S, totalActions, sharedWalletScore, crossAppScore, sessionScore)
  IN IF c.fraudTxScore = NaN THEN NaN
     ELSE Min2(Min2((baseScoreOf(c) + boost) \div 100, Scale), S.threshold + Scale \div 10)

(* Math.min(base + boosters, 1) *)
sybilScoreOf(c, S, totalActions, sharedWalletScore, crossAppScore, sessionScore) ==
  LET boost == boostersOf(c, S, totalActions, sharedWalletScore, crossAppScore, sessionScore)
  IN IF c.fraudTxScore = NaN THEN NaN ELSE Min2((baseScoreOf(c) + boost) \div 100, Scale)

scorecardOf(L, S, clock, ap, lba, N, E, C, W, node) ==
  LET own == LogsOfActor(L, node)
      totalActions == Len(own)
      burstActions == burstActionsOf(W, node)
      clusterSize == clusterSizeOf(C, node)
      connections == connectionsOf(N, E, node)
      hasProfile == node \in DOMAIN ap
      profile == IF hasProfile THEN ap[node] ELSE EmptyProfile
      links == IF node \in DOMAIN lba THEN lba[node] ELSE <<>>
      shared == computeSharedLinksByActor(lba)
      bio == normalizedBio(profile)
      outDeg == Cardinality(positiveOut(E, node))
      maxApm == maxActionsPerMinuteOf(L, node)
      ent == targetEntropyOf(L, node)
      velocity == computeVelocityByActor(L, node, Max2(1, S.velocityWindowSeconds), Max2(1, S.velocityMaxActionsInWindow))
      circadian == computeCircadianByActor(L, node)
      ngram == computeActionNgramByActor(L, node, Min2(Max2(2, S.actionNgramSize), 5))
      session == detectSessionMetrics(L, node, Max2(1, S.sessionGapMinutes) * 60)
      wallets == detectSharedWallets(L, node)
      platforms == detectCrossAppLinking(L, node)
      fraud == detectFraudulentTransactions(L, node)
      coordination == IF totalActions > 0 THEN Min2((burstActions * Scale) \div totalActions, Scale) ELSE 0
      c0 == [actor |-> node,
             churnScore |-> churnActionsOf(L, S, node),
             coordinationScore |-> coordination,
             clusterIsolationScore |-> IF clusterSize > 0 THEN Scale - (connections * Scale) \div clusterSize ELSE 0,
             newAccountScore |-> IF hasProfile THEN newAccountScoreOf(L, clock, profile, node) ELSE 0,
             lowDiversityScore |-> IF totalActions > 0
                                   THEN Scale - (Cardinality(uniqueTargetsOf(L, node)) * Scale) \div totalActions
                                   ELSE 0,
             profileAnomalyScore |-> updateProfileAnomalyScore(links, profile.followerCount, profile.followingCount),
             links |-> links,
             suspiciousLinks |-> SelectSeq(links, isSuspiciousDomain),
             sharedLinks |-> IF node \in DOMAIN shared THEN shared[node] ELSE <<>>,
             linkDiversity |-> linkDiversityScore(links),
             reciprocalRate |-> IF outDeg > 0 THEN (mutualPositiveOf(E, node) * Scale) \div outDeg ELSE 0,
             burstRate |-> coordination,
             bioSimilarityScore |-> IF bio # <<>> THEN Min2(((Max2(bioCount(ap, bio), 1) - 1) * Scale) \div 5, Scale) ELSE 0,
             maxActionsPerMinute |-> maxApm,
             rapidActionScore |-> rapidActionScoreOf(maxApm, S.rapidActionsPerMinuteThreshold),
             maxActionsPerVelocityWindow |-> velocity.maxInWindow,
             maxActionsPerSecond |-> velocity.maxPerSecond,
             velocityScore |-> velocity.velocityScore,
             targetEntropy |-> ent,
             lowEntropyScore |-> Scale - ent,
             hourEntropy |-> circadian.hourEntropy,
             activeHours |-> circadian.activeHours,
             circadianScore |-> circadian.circadianScore,
             actionSequenceRepeatScore |-> ngram.repeatScore,
             topActionNgram |-> ngram.topNgram,
             topActionNgramCount |-> ngram.topCount,
             avgSessionMinutes |-> session.avgSessionMinutes,
             avgSessionGapMinutes |-> session.avgGapMinutes,
             maxSessionGapMinutes |-> session.maxGapMinutes,
             sharedWallets |-> wallets,
             crossAppPlatforms |-> platforms,
             sessionCount |-> session.sessionCount,
             fraudTxScore |-> IF IsDefined(fraud) THEN Val(fraud) ELSE 0]
      sybil == sybilScoreOf(c0, S, totalActions,
                            IF Len(wallets) > 0 THEN Scale ELSE 0,
                            IF Len(platforms) > 1 THEN Scale \div 2 ELSE 0,
                            session.bottySessionScore)
      c1 == [f \in DOMAIN c0 \cup {"sybilScore", "noveltyScore"} |->
               IF f = "sybilScore" THEN sybil
               ELSE IF f = "noveltyScore" THEN c0.newAccountScore
               ELSE c0[f]]
  IN [f \in DOMAIN c1 \cup {"reasons"} |->
        IF f = "reasons" THEN reasonsOf(S, c1, clusterSize, totalActions) ELSE c1[f]]

(* Object.values(actorStats).map(...): one scorecard per key of actorStats, *)
(* which is initialised from nodes.                                         *)
scorecardKeys(N) == N

buildScorecards(L, S, clock, ap, lba, N, E, C, W) ==
  [i \in 1..Len(scorecardKeys(N)) |-> scorecardOf(L, S, clock, ap, lba, N, E, C, W, scorecardKeys(N)[i])]

----------------------------------------------------------------------------
(* analyzeLogs as a whole, for comparing two calls.  threw is TRUE when the *)
(* call ends in the RangeError of new Date(NaN).toISOString().              *)

analyzeLogs(L, S, clock) ==
  LET ap == collectProfiles(L)
      lba == collectLinksByActor(ap)
      N == buildNodes(L, <<>>)
      E == buildEdges(L, S)
      C == findClusters(N, E, S)
      W == detectWaves(L, S)
  IN IF L = <<>>
     THEN [threw |-> FALSE, elements |-> <<>>, clusters |-> <<>>, waves |-> <<>>, scorecards |-> <<>>]
     ELSE IF HasInvalidTimestamp(L)
     THEN [threw |-> TRUE, elements |-> <<>>, clusters |-> <<>>, waves |-> <<>>, scorecards |-> <<>>]
     ELSE [threw |-> FALSE, elements |-> buildElements(N, E), clusters |-> C, waves |-> W,
           scorecards |-> buildScorecards(L, S, clock, ap, lba, N, E, C, W)]

----------------------------------------------------------------------------
(* The state machine: the caller builds logs, then analyzeLogs runs stage   *)
(* by stage.  pc is the position in analyzeLogs.                            *)

(* A report that is dropped when its stage was reported before. *)
ReportOnce(stage, pct) ==
  IF \E i \in 1..Len(progress) : progress[i].stage = stage THEN progress
  ELSE Append(progress, [stage |-> stage, pct |-> pct])

Report(stage, pct) == Append(progress, [stage |-> stage, pct |-> pct])

(* The wall clock read by Date.now(). *)
Clocks == {10 ^ 6}

DefaultSettings ==
  [threshold |-> 6 * (Scale \div 10), minClusterSize |-> 6, timeBinMinutes |-> 5,
   waveMinCount |-> 10, waveMinActors |-> 8,
   positiveActions |-> {"follow", "star", "transfer", "fork"},
   churnActions |-> {"unfollow", "unstar"},
   rapidActionsPerMinuteThreshold |-> 50, entropyMinTotalActions |-> 20,
   burstWindowSeconds |-> 60, burstMinCount |-> 20, burstMinActors |-> 10,
   velocityWindowSeconds |-> 10, velocityMaxActionsInWindow |-> 20,
   sessionGapMinutes |-> 5, actionNgramSize |-> 3]

BaseEvent ==
  [timestamp |-> Some(600), actor |-> "a", target |-> "b", action |-> "follow",
   platform |-> "github", bio |-> <<>>, links |-> Undefined, followerCount |-> Undefined,
   followingCount |-> Undefined, amount |-> Undefined, actorCreatedAt |-> Undefined]

----------------------------------------------------------------------------
(* src/lib/rateLimit.ts and the API route handlers.  Times are in           *)
(* milliseconds.  A request is the pair of headers getClientId reads, ""    *)
(* for a header that is absent.                                             *)
Requests == [xff : {"", "10.0.0.1, 10.0.0.9"}, realIp : {"", "10.0.0.2"}]

(* xff.split(',')[0]?.trim() || 'unknown', else the trimmed x-real-ip, else *)
(* 'local'.                                                                 *)
getClientId(req) ==
  LET first == CASE req.xff = "10.0.0.1, 10.0.0.9" -> "10.0.0.1"
                 [] req.xff = " , 10.0.0.9" -> ""
                 [] OTHER -> req.xff
  IN IF req.xff # "" THEN (IF first # "" THEN first ELSE "unknown")
     ELSE IF req.realIp # "" THEN req.realIp
     ELSE "local"

(* A limiter that grants one call more than max in a bucket. *)
rateLimitInclusive(b, t, req, input) ==
  LET key == splitColon(input.key) \o splitColon(getClientId(req))
      windowMs == Max2(1000, input.windowMs)
      max == Max2(1, input.max)
  IN IF key \notin DOMAIN b \/ t >= b[key].resetAt
     THEN [buckets |-> [k \in DOMAIN b \cup {key} |->
                          IF k = key THEN [count |-> 1, resetAt |-> t + windowMs] ELSE b[k]],
           allowed |-> TRUE, remaining |-> max - 1,
           retryAfterSec |-> (windowMs + 999) \div 1000]
     ELSE IF b[key].count > max
     THEN [buckets |-> b, allowed |-> FALSE, remaining |-> 0,
           retryAfterSec |-> Max2(1, (b[key].resetAt - t + 999) \div 1000)]
     ELSE [buckets |-> [b EXCEPT ![key].count = @ + 1],
           allowed |-> TRUE, remaining |-> Max2(0, max - (b[key].count + 1)),
           retryAfterSec |-> Max2(1, (b[key].resetAt - t + 999) \div 1000)]

(* rateLimit at time t over the bucket map b: the new map and the returned  *)
(* object.  The map key `${input.key}:${client}` is kept as its ':'-        *)
(* separated parts.                                                         *)
rateLimit(b, t, req, input) ==
  LET key == splitColon(input.key) \o splitColon(getClientId(req))
      windowMs == Max2(1000, input.windowMs)
      max == Max2(1, input.max)
  IN IF key \notin DOMAIN b \/ t >= b[key].resetAt
     THEN [buckets |-> [k \in DOMAIN b \cup {key} |->
                          IF k = key THEN [count |-> 1, resetAt |-> t + windowMs] ELSE b[k]],
           allowed |-> TRUE, remaining |-> max - 1,
           retryAfterSec |-> (windowMs + 999) \div 1000]
     ELSE IF b[key].count >= max
     THEN [buckets |-> b, allowed |-> FALSE, remaining |-> 0,
           retryAfterSec |-> Max2(1, (b[key].resetAt - t + 999) \div 1000)]
     ELSE [buckets |-> [b EXCEPT ![key].count = @ + 1],
           allowed |-> TRUE, remaining |-> Max2(0, max - (b[key].count + 1)),
           retryAfterSec |-> Max2(1, (b[key].resetAt - t + 999) \div 1000)]

----------------------------------------------------------------------------
InitWith(SettingsSet) ==
  /\ logs = <<>>
  /\ settings \in SettingsSet
  /\ now \in Clocks
  /\ pc = "idle"
  /\ progress = <<>>
  /\ actorProfiles = <<>>
  /\ linksByActor = <<>>
  /\ nodes = <<>>
  /\ edges = <<>>
  /\ elements = <<>>
  /\ clusters = <<>>
  /\ waves = <<>>
  /\ scorecards = <<>>
  /\ buckets = [k \in {} |-> 0]
  /\ serverTime = 0
  /\ calls = <<>>
  /\ response = [route |-> "", steps |-> <<>>, denied |-> FALSE, status |-> 0, served |-> 0]

(* The caller appends one event to the log vector. *)
AddLog(Events) ==
  /\ pc = "idle"
  /\ Len(logs) < MaxLogs
  /\ \E e \in Events : logs' = Append(logs, e)
  /\ UNCHANGED <<buckets, serverTime, calls, response>>
  /\ UNCHANGED <<settings, now, pc, progress, actorProfiles, linksByActor, nodes, edges,
                 elements, clusters, waves, scorecards>>

(* The call: report start; empty logs return the empty result at once. *)
Start ==
  /\ pc = "idle"
  /\ progress' = Report("start", 0)
  /\ pc' = IF Len(logs) = 0 THEN "returned" ELSE "profiles"
  /\ UNCHANGED <<buckets, serverTime, calls, response>>
  /\ UNCHANGED <<logs, settings, now, actorProfiles, linksByActor, nodes, edges, elements,
                 clusters, waves, scorecards>>

CollectProfiles ==
  /\ pc = "profiles"
  /\ actorProfiles' = collectProfiles(logs)
  /\ linksByActor' = collectLinksByActor(collectProfiles(logs))
  /\ progress' = Report("profiles", 15)
  /\ pc' = "graph"
  /\ UNCHANGED <<buckets, serverTime, calls, response>>
  /\ UNCHANGED <<logs, settings, now, nodes, edges, elements, clusters, waves, scorecards>>

BuildGraph ==
  /\ pc = "graph"
  /\ nodes' = buildNodes(logs, <<>>)
  /\ edges' = buildEdges(logs, settings)
  /\ elements' = buildElements(buildNodes(logs, <<>>), buildEdges(logs, settings))
  /\ progress' = Report("graph", 30)
  /\ pc' = "centrality"
  /\ UNCHANGED <<buckets, serverTime, calls, response>>
  /\ UNCHANGED <<logs, settings, now, actorProfiles, linksByActor, clusters, waves, scorecards>>

(* PageRank, eigenvector centrality and betweenness: their values are not   *)
(* carried by the model, only the progress report that follows them.        *)
ComputeCentrality ==
  /\ pc = "centrality"
  /\ progress' = Report("clusters", 38)
  /\ pc' = "clusters"
  /\ UNCHANGED <<buckets, serverTime, calls, response>>
  /\ UNCHANGED <<logs, settings, now, actorProfiles, linksByActor, nodes, edges, elements,
                 clusters, waves, scorecards>>

FindClusters ==
  /\ pc = "clusters"
  /\ clusters' = findClusters(nodes, edges, settings)
  /\ progress' = Report("clusters", 45)
  /\ pc' = "waves"
  /\ UNCHANGED <<buckets, serverTime, calls, response>>
  /\ UNCHANGED <<logs, settings, now, actorProfiles, linksByActor, nodes, edges, elements,
                 waves, scorecards>>

(* new Date(NaN).toISOString() throws a RangeError at the first event whose *)
(* timestamp does not parse: the call ends there.                           *)
DetectWaves ==
  /\ pc = "waves"
  /\ IF HasInvalidTimestamp(logs)
     THEN /\ pc' = "threw"
          /\ UNCHANGED <<waves, progress>>
     ELSE /\ waves' = detectWaves(logs, settings)
          /\ progress' = Report("waves", 60)
          /\ pc' = "scorecards"
  /\ UNCHANGED <<buckets, serverTime, calls, response>>
  /\ UNCHANGED <<logs, settings, now, actorProfiles, linksByActor, nodes, edges, elements,
                 clusters, scorecards>>

BuildScorecards ==
  /\ pc = "scorecards"
  /\ scorecards' = buildScorecards(logs, settings, now, actorProfiles, linksByActor,
                                   nodes, edges, clusters, waves)
  /\ progress' = Append(Report("scorecards", 90), [stage |-> "done", pct |-> 100])
  /\ pc' = "returned"
  /\ UNCHANGED <<buckets, serverTime, calls, response>>
  /\ UNCHANGED <<logs, settings, now, actorProfiles, linksByActor, nodes, edges, elements,
                 clusters, waves>>

Stages ==
  \/ Start
  \/ CollectProfiles
  \/ BuildGraph
  \/ ComputeCentrality
  \/ FindClusters
  \/ DetectWaves
  \/ BuildScorecards

Returned == pc = "returned"

(* Inputs of Spec: events with and without a parsable timestamp, parallel   *)
(* and self edges, an identifier that is only ever a target.                *)
SmallWaves ==
  [DefaultSettings EXCEPT !.minClusterSize = 2, !.waveMinCount = 2, !.waveMinActors = 1,
                          !.entropyMinTotalActions = 2, !.burstMinCount = 2, !.burstMinActors = 1,
                          !.rapidActionsPerMinuteThreshold = 2, !.velocityMaxActionsInWindow = 2]

SpecSettings == {SmallWaves}

SpecEvents ==
  {[BaseEvent EXCEPT !.timestamp = ts, !.actor = p[1], !.target = p[2], !.action = a] :
     ts \in {Some(600), Undefined},
     p \in {<<"a", "b">>, <<"a", "c">>, <<"b", "b">>, <<"b", "a">>},
     a \in {"follow", "unfollow"}}

Init == InitWith(SpecSettings)

Next == AddLog(SpecEvents) \/ Stages

Spec == Init /\ [][Next]_vars

----------------------------------------------------------------------------
(* Further specifications: the same actions over other inputs.              *)

(* SpecGraph: parallel, reciprocal and self edges, two separate pairs, a    *)
(* lone identifier, and events whose action forms no edge; every timestamp  *)
(* parses.                                                                  *)
GraphSettings == {[SmallWaves EXCEPT !.minClusterSize = m] : m \in {1, 2, 3}}

GraphEvents ==
  {[BaseEvent EXCEPT !.actor = p[1], !.target = p[2]] :
     p \in {<<"a", "b">>, <<"b", "a">>, <<"c", "d">>, <<"a", "a">>, <<"c", "b">>,
            <<"e", "e">>}}
  \cup {[BaseEvent EXCEPT !.actor = p[1], !.target = p[2], !.action = "unfollow"] :
          p \in {<<"c", "d">>, <<"e", "e">>}}

SpecGraph == InitWith(GraphSettings) /\ [][AddLog(GraphEvents) \/ Stages]_vars

(* SpecScore: two actors, edge and churn actions at two times, under three  *)
(* thresholds.                                                              *)
Thresholds == {0, Scale \div 4, Scale \div 2}

ScoreSettings == {[SmallWaves EXCEPT !.threshold = t] : t \in Thresholds}

ScoreEvents ==
  {[BaseEvent EXCEPT !.timestamp = Some(ts), !.actor = p[1], !.target = p[2]] :
     ts \in {600, 1000},
     p \in {<<"a", "b">>, <<"b", "c">>}}
  \cup {[BaseEvent EXCEPT !.action = "unfollow"],
        [BaseEvent EXCEPT !.timestamp = Some(1000), !.actor = "b", !.target = "c",
                          !.action = "unfollow"]}

SpecScore == InitWith(ScoreSettings) /\ [][AddLog(ScoreEvents) \/ Stages]_vars

(* SpecProfile: two actors whose events carry different link lists, bios,   *)
(* counts and platforms.                                                    *)
Url(scheme, host, path, trail) == [scheme |-> scheme, host |-> host, path |-> path, trail |-> trail]

Word(w) == Url("", <<>>, w, <<>>)

BitLy == Url("https", <<"bit", "ly">>, "/x", <<>>)

BitLyDot == Url("https", <<"bit", "ly">>, "/x", <<".">>)

Example == Url("https", <<"example", "com">>, "/", <<>>)

TinyUrl == Url("http", <<"www", "tinyurl", "com">>, "/y", <<>>)

(* "https://example.com/p . ." *)
ExampleTail == Url("https", <<"example", "com">>, "/p", <<" ", ".", " ", ".">>)

FtpLink == Url("ftp", <<"example", "com">>, "/f", <<>>)

ProfileVariants ==
  { BaseEvent,
    [BaseEvent EXCEPT !.links = Some(<<BitLy>>)],
    [BaseEvent EXCEPT !.links = Some(<<Example, BitLyDot, FtpLink>>)],
    [BaseEvent EXCEPT !.links = Some(<<ExampleTail, BitLy>>)],
    [BaseEvent EXCEPT !.bio = <<Word("hi"), Word("join"), BitLy>>],
    [BaseEvent EXCEPT !.bio = <<TinyUrl>>, !.followerCount = Some(1), !.followingCount = Some(20),
                      !.actorCreatedAt = Some(Some(500))],
    [BaseEvent EXCEPT !.platform = "farcaster", !.followerCount = Some(30)] }

ProfileEvents == {[v EXCEPT !.actor = a] : v \in ProfileVariants, a \in {"a", "c"}}

SpecProfile == InitWith({SmallWaves}) /\ [][AddLog(ProfileEvents) \/ Stages]_vars

(* SpecWallet: transfers between wallet addresses written in either letter  *)
(* case, and one event between plain identifiers.                           *)
WalletEvents ==
  {[BaseEvent EXCEPT !.actor = f, !.target = r, !.action = "transfer"] :
     f \in {"0xa1", "0xA1"}, r \in {"0xb2", "0xB2", "0xc3"}}
  \cup {BaseEvent}

SpecWallet == InitWith({SmallWaves}) /\ [][AddLog(WalletEvents) \/ Stages]_vars

(* SpecBio: three actors whose events all carry one bio with a shortener   *)
(* link, no explicit links and no follower counts, acting on two targets    *)
(* under the default settings.                                              *)
BioActors == {"a", "c", "d"}

BioEvents ==
  {[BaseEvent EXCEPT !.actor = a, !.target = t, !.action = "star",
                     !.bio = <<Word("hi"), Word("join"), BitLy>>] :
     a \in BioActors, t \in {"b", "r"}}

SpecBio == InitWith({DefaultSettings}) /\ [][AddLog(BioEvents) \/ Stages]_vars

(* SpecTap: one actor tapping one target inside one UTC minute.  The        *)
(* settings are the defaults with positiveActions = [tap]; the per-actor    *)
(* count thresholds (50 per minute, 20 per velocity window, 20 actions for  *)
(* the entropy booster) are brought down to 1, so that a log of two or more *)
(* taps exceeds each of them at least twofold, as 120 taps do the defaults. *)
TapSettings ==
  [DefaultSettings EXCEPT !.positiveActions = {"tap"},
                          !.rapidActionsPerMinuteThreshold = 1,
                          !.velocityMaxActionsInWindow = 1,
                          !.entropyMinTotalActions = 1]

TapEvents ==
  {[BaseEvent EXCEPT !.target = "t", !.action = "tap", !.timestamp = Some(ts)] :
     ts \in {600, 601, 630}}

SpecTap == InitWith({TapSettings}) /\ [][AddLog(TapEvents) \/ Stages]_vars

(* SpecClock: events with and without a timestamp that parses, with and    *)
(* without an account creation time.                                        *)
ClockEvents ==
  {[BaseEvent EXCEPT !.timestamp = ts, !.actorCreatedAt = created] :
     ts \in {Some(600), Undefined}, created \in {Undefined, Some(Some(500))}}
  \cup {[BaseEvent EXCEPT !.actor = "b", !.target = "c", !.actorCreatedAt = Some(Some(0))]}

SpecClock == InitWith({SmallWaves}) /\ [][AddLog(ClockEvents) \/ Stages]_vars

(* SpecWave: two actors on one target inside and across bins and windows,   *)
(* a far event that stretches the dataset span, identifiers that hold the   *)
(* key separators; waves need one actor or two.                             *)
WaveSettings ==
  {[SmallWaves EXCEPT !.waveMinCount = 1, !.burstMinCount = 1,
                      !.waveMinActors = m, !.burstMinActors = m] : m \in {1, 2}}

WaveEvents ==
  {[BaseEvent EXCEPT !.actor = e[1], !.action = e[2], !.target = e[3], !.timestamp = Some(e[4])] :
     e \in {<<"a", "follow", "c", 600>>, <<"b", "follow", "c", 610>>,
            <<"b", "follow", "c", 660>>, <<"b", "follow", "c", 900>>,
            <<"a", "follow", "c::d", 1200>>, <<"a", "follow::c", "d", 1200>>,
            <<"b", "follow", "c", 1500>>, <<"a", "follow", "c:window", 600>>}}

SpecWave == InitWith(WaveSettings) /\ [][AddLog(WaveEvents) \/ Stages]_vars

(* SpecPace: one actor's events inside, at the end of and just past a       *)
(* velocity window of 10 s and a session gap of 60 s, in any order, beside  *)
(* a second actor.                                                          *)
PaceEvents ==
  {[BaseEvent EXCEPT !.timestamp = Some(ts)] : ts \in {600, 605, 610, 611, 671, 1000}}
  \cup {[BaseEvent EXCEPT !.timestamp = Some(ts), !.actor = "b", !.target = "c"] : ts \in {600, 1000}}

SpecPace ==
  InitWith({[SmallWaves EXCEPT !.sessionGapMinutes = 1]}) /\ [][AddLog(PaceEvents) \/ Stages]_vars

(* SpecZero: a rapid-action threshold of 0, amounts whose mean is -1, an    *)
(* identifier with no action and one with no edge.                          *)
ZeroEvents ==
  {[BaseEvent EXCEPT !.amount = m] : m \in {Undefined, Some(0 - 1), Some(0), Some(0 - 2)}}
  \cup {[BaseEvent EXCEPT !.actor = "e", !.target = "e", !.action = "unfollow"]}

SpecZero ==
  InitWith({[SmallWaves EXCEPT !.rapidActionsPerMinuteThreshold = 0, !.minClusterSize = 1]})
    /\ [][AddLog(ZeroEvents) \/ Stages]_vars

----------------------------------------------------------------------------
(* The server: the limiter called on its own, and the five route handlers.  *)

(* Bounds: the calls of the limiter that are recorded, the requests the     *)
(* handlers serve.                                                          *)
MaxCalls == 3

MaxRequests == 16

engine == <<logs, settings, now, pc, progress, actorProfiles, linksByActor,
            nodes, edges, elements, clusters, waves, scorecards>>

(* Date.now() moves on. *)
Tick(step, horizon) ==
  /\ serverTime + step <= horizon
  /\ serverTime' = serverTime + step
  /\ UNCHANGED <<buckets, calls, response>>
  /\ UNCHANGED engine

(* One call of rateLimit, recorded with what it returned. *)
Call(Inputs) ==
  /\ Len(calls) < MaxCalls
  /\ \E req \in Requests, input \in Inputs :
       LET rl == rateLimit(buckets, serverTime, req, input)
       IN /\ buckets' = rl.buckets
          /\ calls' = Append(calls, [key |-> input.key, client |-> getClientId(req),
                                     max |-> input.max, windowMs |-> input.windowMs,
                                     at |-> serverTime, allowed |-> rl.allowed,
                                     remaining |-> rl.remaining,
                                     retryAfterSec |-> rl.retryAfterSec])
  /\ UNCHANGED <<serverTime, response>>
  /\ UNCHANGED engine

(* The common shape of the handlers.  limit is the input of the handler's   *)
(* rateLimit call, <<>> when the handler makes none; valid says whether the *)
(* request passes the checks that stand before the first outbound fetch.    *)
(* response holds the steps the handler took, in order, and the number of   *)
(* requests served so far.  What the upstream answers is not modelled.      *)
Serve(route, limit, req, valid) ==
  LET rl == rateLimit(buckets, serverTime, req, limit[1])
      denied == limit # <<>> /\ ~rl.allowed
      called == IF limit # <<>> THEN <<"rateLimit">> ELSE <<>>
  IN /\ response.served < MaxRequests
     /\ buckets' = IF limit # <<>> THEN rl.buckets ELSE buckets
     /\ response' = [route |-> route,
                     steps |-> IF denied \/ ~valid THEN called ELSE Append(called, "fetch"),
                     denied |-> denied,
                     status |-> IF denied THEN 429 ELSE IF ~valid THEN 400 ELSE 200,
                     served |-> response.served + 1]
     /\ UNCHANGED <<serverTime, calls>>
     /\ UNCHANGED engine

GithubGET(Reqs) ==
  \E req \in Reqs, valid \in BOOLEAN :
    Serve("fetch/github", <<[key |-> "fetch_github", max |-> 30, windowMs |-> 60000]>>, req, valid)

BaseGET(Reqs) ==
  \E req \in Reqs, valid \in BOOLEAN :
    Serve("fetch/base", <<[key |-> "fetch_base", max |-> 30, windowMs |-> 60000]>>, req, valid)

ProfilePOST(Reqs) ==
  \E req \in Reqs, valid \in BOOLEAN :
    Serve("scan/profile", <<[key |-> "scan_profile", max |-> 15, windowMs |-> 60000]>>, req, valid)

(* No rateLimit call stands in this handler. *)
LinksPOST(Reqs) ==
  \E req \in Reqs, valid \in BOOLEAN : Serve("scan/links", <<>>, req, valid)

(* The import/url handler as the README lists it: no rateLimit call. *)
ImportPOST(Reqs) ==
  \E req \in Reqs, valid \in BOOLEAN : Serve("import/url", <<>>, req, valid)

(* SpecLimit: rateLimit called for two keys by three clients, one key with  *)
(* max and windowMs below their floors, while the clock moves across the    *)
(* windows.                                                                 *)
SpecLimit ==
  InitWith({DefaultSettings})
    /\ [][Call({[key |-> "fetch_base", max |-> 0, windowMs |-> 0],
                [key |-> "scan_profile", max |-> 2, windowMs |-> 2000]})
          \/ Tick(1000, 3000)]_vars

(* SpecApi: one client without headers sends requests to the five routes    *)
(* inside and after the window of one minute.                               *)
SpecApi ==
  InitWith({DefaultSettings})
    /\ [][\/ GithubGET({[xff |-> "", realIp |-> ""]})
          \/ BaseGET({[xff |-> "", realIp |-> ""]})
          \/ ProfilePOST({[xff |-> "", realIp |-> ""]})
          \/ LinksPOST({[xff |-> "", realIp |-> ""]})
          \/ ImportPOST({[xff |-> "", realIp |-> ""]})
          \/ Tick(60000, 60000)]_vars

----------------------------------------------------------------------------
(* Claims.                                                                  *)

Ended == pc \in {"returned", "threw"}

InUnit(x) == x # NaN /\ 0 <= x /\ x <= Scale

Card(i) == scorecards[i]

(* C1: for non-empty logs with at least one timestamp that does not parse,  *)
(* analyzeLogs returns without throwing, and such an event still adds its   *)
(* actor and target to the nodes, adds an edge when its action is positive  *)
(* and counts in its actor's totals.  (The code throws a RangeError.)       *)
C1_MalformedTimestampDoesNotAbort ==
  (Ended /\ HasInvalidTimestamp(logs)) =>
     /\ pc = "returned"
     /\ \A i \in 1..Len(logs) :
          /\ Has(nodes, logs[i].actor) /\ Has(nodes, logs[i].target)
          /\ \E k \in 1..Len(scorecards) : Card(k).actor = logs[i].actor

(* C2: every scorecard has sybilScore in [0,1] and every component score of *)
(* the weighted sum in [0,1], also for actors with several positive edges   *)
(* to one neighbour or edges in both directions.                            *)
C2_ScoresWithinUnitInterval ==
  Returned =>
    \A i \in 1..Len(scorecards) :
      /\ InUnit(Card(i).sybilScore)
      /\ InUnit(Card(i).coordinationScore)
      /\ InUnit(Card(i).clusterIsolationScore)
      /\ InUnit(Card(i).newAccountScore)
      /\ InUnit(Card(i).lowDiversityScore)
      /\ InUnit(Card(i).profileAnomalyScore)
      /\ InUnit(Card(i).rapidActionScore)
      /\ InUnit(Card(i).lowEntropyScore)
      /\ InUnit(Card(i).velocityScore)
      /\ InUnit(Card(i).actionSequenceRepeatScore)
      /\ InUnit(Card(i).circadianScore)
      /\ InUnit(Card(i).fraudTxScore)

(* The unordered pairs of distinct members joined by a positive-action      *)
(* event, read off the emitted edges.                                       *)
JoinedPairs(members) ==
  {{edges[i].source, edges[i].target} :
     i \in {j \in 1..Len(edges) : /\ edges[j].source \in members
                                  /\ edges[j].target \in members
                                  /\ edges[j].source # edges[j].target}}

(* C3: every cluster has at least minClusterSize members, density and       *)
(* conductance in [0,1], each unordered pair of nodes joined by positive    *)
(* events counting once in the internal edge count.                         *)
C3_ClusterMetricsWithinBounds ==
  Returned =>
    \A i \in 1..Len(clusters) :
      LET c == clusters[i]
          n == Len(c.members)
          possibleEdges == (n * (n - 1)) \div 2
      IN /\ n >= settings.minClusterSize
         /\ 0 <= c.density /\ c.density <= Scale
         /\ 0 <= c.conductance /\ c.conductance <= Scale
         /\ possibleEdges > 0 =>
              c.density = (Cardinality(JoinedPairs(Range(c.members))) * Scale) \div possibleEdges

(* C5: for non-empty logs there is exactly one scorecard per distinct actor *)
(* value and none for any other identifier (none for an identifier that     *)
(* occurs only as a target).                                                *)
C5_OneScorecardPerActor ==
  (Returned /\ logs # <<>>) =>
     /\ {Card(i).actor : i \in 1..Len(scorecards)} = Actors(logs)
     /\ \A i, j \in 1..Len(scorecards) : Card(i).actor = Card(j).actor => i = j


(* The connected component of n in the undirected projection of the         *)
(* positive-action graph, as a closure over the emitted edges.              *)
Neighbours(ns) ==
  {edges[i].target : i \in {j \in 1..Len(edges) : edges[j].source \in ns}}
  \cup {edges[i].source : i \in {j \in 1..Len(edges) : edges[j].target \in ns}}

RECURSIVE Closure(_)
Closure(ns) == IF Neighbours(ns) \subseteq ns THEN ns ELSE Closure(ns \cup Neighbours(ns))

ComponentOf(n) == Closure({n})

NoRepeats(seq) == \A i, j \in 1..Len(seq) : seq[i] = seq[j] => i = j

ClusteredNodes == UNION {Range(clusters[i].members) : i \in 1..Len(clusters)}

FirstSightings == Distinct(Flatten([i \in 1..Len(logs) |-> <<logs[i].actor, logs[i].target>>]))

PositiveLogs == SelectSeq(logs, LAMBDA l : l.action \in settings.positiveActions)

(* C6: elements is one node record per distinct identifier, in order of     *)
(* first sighting, followed by one edge record per positive-action log with *)
(* that log's actor and target; so the edges are as many as the positive    *)
(* logs and every edge endpoint is a node id.                               *)
C6_ElementsAreNodesThenEdges ==
  Returned =>
    LET n == Len(FirstSightings)
        m == Len(PositiveLogs)
    IN /\ Len(elements) = n + m
       /\ \A i \in 1..n :
            /\ elements[i].kind = "node"
            /\ elements[i].id = FirstSightings[i]
            /\ elements[i].label = FirstSightings[i]
       /\ \A k \in 1..m :
            /\ elements[n + k].kind = "edge"
            /\ elements[n + k].source = PositiveLogs[k].actor
            /\ elements[n + k].target = PositiveLogs[k].target
            /\ \E i \in 1..n : elements[i].id = elements[n + k].source
            /\ \E i \in 1..n : elements[i].id = elements[n + k].target

(* C6 witness: a returned graph with two edge records between the same pair *)
(* and an event that forms no edge.                                         *)
C6_Witness ==
  /\ Returned
  /\ Len(PositiveLogs) < Len(logs)
  /\ \E i, j \in 1..Len(elements) :
       /\ i < j
       /\ elements[i].kind = "edge"
       /\ elements[i] = elements[j]

HasThresholdClause(reasons) == \E k \in 1..Len(reasons) : reasons[k].clause = ThresholdClause

(* C7: a scorecard whose sybilScore exceeds the threshold has the threshold *)
(* clause as the first entry of its reasons; one whose sybilScore does not  *)
(* exceed it has no threshold clause.                                       *)
C7_ThresholdClauseIffFlagged ==
  Returned =>
    \A i \in 1..Len(scorecards) :
      /\ Card(i).sybilScore > settings.threshold =>
           /\ Card(i).reasons # <<>>
           /\ Card(i).reasons[1].clause = ThresholdClause
      /\ Card(i).sybilScore <= settings.threshold => ~HasThresholdClause(Card(i).reasons)

(* C7 witness: one scorecard above the threshold with further reasons after *)
(* the clause, another at or below it that still has reasons.               *)
C7_Witness ==
  /\ Returned
  /\ \E i \in 1..Len(scorecards) :
       Card(i).sybilScore > settings.threshold /\ Len(Card(i).reasons) >= 2
  /\ \E i \in 1..Len(scorecards) :
       Card(i).sybilScore <= settings.threshold /\ Card(i).reasons # <<>>

Flagged(cards, threshold) ==
  {cards[i].actor : i \in {j \in 1..Len(cards) : cards[j].sybilScore # NaN /\ cards[j].sybilScore > threshold}}

RaisedThreshold(t) == analyzeLogs(logs, [settings EXCEPT !.threshold = t], now)

(* C8: raising only the threshold leaves every actor's sybilScore unchanged *)
(* and the set of actors above the threshold can only shrink.               *)
C8_ThresholdMonotone ==
  Returned =>
    \A t \in Thresholds :
      t >= settings.threshold =>
        LET r == RaisedThreshold(t)
        IN /\ ~r.threw
           /\ Len(r.scorecards) = Len(scorecards)
           /\ \A i \in 1..Len(scorecards) :
                /\ r.scorecards[i].actor = Card(i).actor
                /\ r.scorecards[i].sybilScore = Card(i).sybilScore
           /\ Flagged(r.scorecards, t) \subseteq Flagged(scorecards, settings.threshold)

(* C8 witness: an actor above the threshold of the run that a higher        *)
(* threshold no longer flags, beside one that stays flagged.                *)
C8_Witness ==
  /\ Returned
  /\ \E t \in Thresholds :
       /\ t > settings.threshold
       /\ Flagged(RaisedThreshold(t).scorecards, t) # {}
       /\ Flagged(RaisedThreshold(t).scorecards, t) # Flagged(scorecards, settings.threshold)


(* The rearrangements of the log. *)
Rearrangements(n) == {f \in [1..n -> 1..n] : \A i, j \in 1..n : f[i] = f[j] => i = j}

Permuted(f) == [i \in 1..Len(logs) |-> logs[f[i]]]

MemberSets(cs) == {Range(cs[i].members) : i \in 1..Len(cs)}

CardOf(cards, actor) == cards[CHOOSE i \in 1..Len(cards) : cards[i].actor = actor]

(* C9: for any permutation of the log the clusters have the same family of  *)
(* member sets, and every actor's suspiciousLinks, sharedLinks and          *)
(* crossAppPlatforms are equal as sets to those of the unpermuted run, also *)
(* when the events of one actor carry different links lists or bios.        *)
C9_PermutationStability ==
  Returned =>
    \A f \in Rearrangements(Len(logs)) :
      LET r == analyzeLogs(Permuted(f), settings, now)
      IN /\ ~r.threw
         /\ MemberSets(r.clusters) = MemberSets(clusters)
         /\ {r.scorecards[i].actor : i \in 1..Len(r.scorecards)}
              = {Card(i).actor : i \in 1..Len(scorecards)}
         /\ \A i \in 1..Len(scorecards) :
              LET other == CardOf(r.scorecards, Card(i).actor)
              IN /\ Range(other.suspiciousLinks) = Range(Card(i).suspiciousLinks)
                 /\ Range(other.sharedLinks) = Range(Card(i).sharedLinks)
                 /\ Range(other.crossAppPlatforms) = Range(Card(i).crossAppPlatforms)

(* The links carried by the events of an actor, normalized, in log order.   *)
CarriedLinks(actor) ==
  Flatten([i \in 1..Len(LogsOfActor(logs, actor)) |->
             IF IsDefined(LogsOfActor(logs, actor)[i].links)
             THEN normalizeLinks(Val(LogsOfActor(logs, actor)[i].links))
             ELSE <<>>])

(* The value of the last event in own for which carries holds, else none.   *)
LastCarried(own, carries(_), value(_), none) ==
  LET idx == {i \in 1..Len(own) : carries(own[i])}
  IN IF idx = {} THEN none ELSE value(own[SetMax(idx)])

(* C10: for every actor, links is the first-occurrence-ordered deduplicated *)
(* union of the normalized links of all its events and the links extracted  *)
(* from its bio; bio, followerCount, followingCount and actorCreatedAt take *)
(* the value of the last event of the actor that carries them.              *)
C10_LinksUnionedOthersLastWrite ==
  Returned =>
    \A i \in 1..Len(scorecards) :
      Card(i).actor \in Actors(logs) =>
        LET a == Card(i).actor
            own == LogsOfActor(logs, a)
            bio == LastCarried(own, LAMBDA l : l.bio # <<>>, LAMBDA l : l.bio, <<>>)
        IN /\ Card(i).links = Distinct(CarriedLinks(a) \o extractLinks(bio))
           /\ actorProfiles[a].bio = bio
           /\ actorProfiles[a].followerCount
                = LastCarried(own, LAMBDA l : IsDefined(l.followerCount),
                              LAMBDA l : l.followerCount, Undefined)
           /\ actorProfiles[a].followingCount
                = LastCarried(own, LAMBDA l : IsDefined(l.followingCount),
                              LAMBDA l : l.followingCount, Undefined)
           /\ actorProfiles[a].actorCreatedAt
                = LastCarried(own, LAMBDA l : IsDefined(l.actorCreatedAt),
                              LAMBDA l : l.actorCreatedAt, Undefined)


(* The transfers between addresses, and the recipients of a funder, with    *)
(* the addresses compared without regard to letter case.                    *)
WalletTransfers ==
  SelectSeq(logs, LAMBDA l : l.action = "transfer" /\ isAddr(l.actor) /\ isAddr(l.target))

Funders == {toLowerCase(WalletTransfers[i].actor) : i \in 1..Len(WalletTransfers)}

RecipientsOf(f) ==
  {toLowerCase(WalletTransfers[i].target) :
     i \in {j \in 1..Len(WalletTransfers) : toLowerCase(WalletTransfers[j].actor) = f}}

SharedFundersOf(n) ==
  {f \in Funders : Cardinality(RecipientsOf(f)) >= 2 /\ toLowerCase(n) \in RecipientsOf(f)}

HasClause(reasons, clause) == \E k \in 1..Len(reasons) : reasons[k].clause = clause

(* C11: a funder with at least 2 distinct recipients is listed in the       *)
(* sharedWallets of each of those recipients, which then carry the 'Shared  *)
(* funders' reason, whatever letter case the addresses are written in; an   *)
(* identifier that is the recipient of no such funder has sharedWallets =   *)
(* [].                                                                      *)
C11_SharedFundersAnyLetterCase ==
  Returned =>
    \A i \in 1..Len(scorecards) :
      /\ {toLowerCase(w) : w \in Range(Card(i).sharedWallets)} = SharedFundersOf(Card(i).actor)
      /\ SharedFundersOf(Card(i).actor) # {} => HasClause(Card(i).reasons, "Shared funders")


ClusterHolding(n) == {i \in 1..Len(clusters) : Has(clusters[i].members, n)}

(* C12: an actor in a returned cluster C has clusterIsolationScore =         *)
(* 1 - d/|C|, d the number of its distinct undirected neighbours in the      *)
(* positive-action graph (parallel and reciprocal edges counted once); an    *)
(* actor in no cluster has 0.                                                *)
C12_IsolationFromDistinctNeighbours ==
  Returned =>
    \A i \in 1..Len(scorecards) :
      LET n == Card(i).actor
          d == Cardinality(Neighbours({n}))
      IN IF ClusterHolding(n) = {} THEN Card(i).clusterIsolationScore = 0
         ELSE \A k \in ClusterHolding(n) :
                Card(i).clusterIsolationScore
                  = Scale - (d * Scale) \div Len(clusters[k].members)


HasReason(reasons, clause, value) ==
  \E k \in 1..Len(reasons) : reasons[k] = Reason(clause, value)

(* C13 (scenario S3): when exactly three actors carry the bio 'hi join      *)
(* https://bit.ly/x', with no explicit links and no follower or following   *)
(* counts, each of them has suspiciousLinks = [https://bit.ly/x],           *)
(* sharedLinks = [https://bit.ly/x], profileAnomalyScore >= 0.5 and the     *)
(* reasons 'Suspicious link domains (1)' and 'Shared links with others (1)'.*)
C13_SharedBioLinkScenario ==
  (Returned /\ Actors(logs) = BioActors) =>
    \A i \in 1..Len(scorecards) :
      Card(i).actor \in BioActors =>
        /\ Card(i).suspiciousLinks = <<BitLy>>
        /\ Card(i).sharedLinks = <<BitLy>>
        /\ Card(i).profileAnomalyScore >= Scale \div 2
        /\ HasReason(Card(i).reasons, "Suspicious link domains", 1)
        /\ HasReason(Card(i).reasons, "Shared links with others", 1)


(* C14 (scenario S4): a single actor whose taps on one target, all inside   *)
(* one UTC minute, number at least twice the rapid-action threshold has     *)
(* maxActionsPerMinute = the number of taps, rapidActionScore = 1,          *)
(* sybilScore > threshold and the reason 'Rapid actions (n/min)'.            *)
C14_RapidTapScenario ==
  (Returned /\ Len(logs) >= 2 * settings.rapidActionsPerMinuteThreshold) =>
    \A i \in 1..Len(scorecards) :
      Card(i).actor = "a" =>
        /\ Card(i).maxActionsPerMinute = Len(logs)
        /\ Card(i).rapidActionScore = Scale
        /\ Card(i).sybilScore > settings.threshold
        /\ HasReason(Card(i).reasons, "Rapid actions", Len(logs))


(* Wall-clock times of a second call, before and after the one of the run.  *)
OtherClocks == {1200, 2 * 10 ^ 6}

(* C15: two calls with equal logs and settings made at different wall-clock *)
(* times return equal results (or both throw): no output field depends on   *)
(* Date.now().                                                              *)
C15_ResultIndependentOfClock ==
  Ended =>
    \A c \in OtherClocks :
      LET r == analyzeLogs(logs, settings, c)
      IN /\ r = analyzeLogs(logs, settings, now)
         /\ r.threw <=> pc = "threw"
         /\ ~r.threw =>
              /\ r.elements = elements
              /\ r.clusters = clusters
              /\ r.waves = waves
              /\ r.scorecards = scorecards

(* C15 witness: a returned run in which an account age was measured from    *)
(* the first sighting and a node without events fell back on the start of   *)
(* the dataset.                                                             *)
C15_Witness ==
  /\ Returned
  /\ \E i \in 1..Len(scorecards) : Card(i).newAccountScore = Scale
  /\ \E i \in 1..Len(scorecards) : actorTimes(logs, Card(i).actor) = <<>>


(* The log followed by a copy of itself later by more than                  *)
(* burstWindowSeconds + timeBinMinutes * 60 seconds.                        *)
ShiftSeconds == settings.burstWindowSeconds + settings.timeBinMinutes * 60 + 1

Doubled ==
  logs \o [i \in 1..Len(logs) |->
             [logs[i] EXCEPT !.timestamp = Some(TimeOf(logs[i]) + ShiftSeconds)]]

(* C16: for a dataset with valid timestamps, the analysis of the dataset    *)
(* followed by its shifted copy reports clusters with the same member sets, *)
(* and every actor's churnScore is exactly twice the one of the dataset.    *)
C16_DoublingKeepsClustersDoublesChurn ==
  (Returned /\ ~HasInvalidTimestamp(logs)) =>
    LET r == analyzeLogs(Doubled, settings, now)
    IN /\ ~r.threw
       /\ MemberSets(r.clusters) = MemberSets(clusters)
       /\ Len(r.scorecards) = Len(scorecards)
       /\ \A i \in 1..Len(scorecards) :
            /\ r.scorecards[i].actor = Card(i).actor
            /\ r.scorecards[i].churnScore = 2 * Card(i).churnScore

(* C16 witness: a returned run with a cluster and an actor with churn.      *)
C16_Witness ==
  /\ Returned
  /\ ~HasInvalidTimestamp(logs)
  /\ clusters # <<>>
  /\ \E i \in 1..Len(scorecards) : Card(i).churnScore >= 1


(* The events a wave counts: those of its bin, action and target for a bin  *)
(* wave, those of a key that gives its action and target, inside its        *)
(* window, for a window wave.                                               *)
CountedIn(w) ==
  IF w.method = "bin"
  THEN {i \in 1..Len(logs) : /\ logs[i].action = w.action
                             /\ logs[i].target = w.target
                             /\ w.windowStart <= TimeOf(logs[i])
                             /\ TimeOf(logs[i]) < w.windowEnd}
  ELSE {i \in 1..Len(logs) : /\ burstGroupKey(logs[i])[1] = w.action
                             /\ burstGroupKey(logs[i])[2] = w.target
                             /\ w.windowStart <= TimeOf(logs[i])
                             /\ TimeOf(logs[i]) <= w.windowEnd}

(* C17: a bin wave lists at least waveMinActors distinct actors, a window   *)
(* wave at least burstMinActors; no actor is listed twice and every listed  *)
(* actor performed one of the events counted in the wave.                   *)
C17_WaveActorsDistinctAndEnough ==
  Returned =>
    \A k \in 1..Len(waves) :
      /\ NoRepeats(waves[k].actors)
      /\ waves[k].method = "bin" => Len(waves[k].actors) >= settings.waveMinActors
      /\ waves[k].method = "window" => Len(waves[k].actors) >= settings.burstMinActors
      /\ \A a \in Range(waves[k].actors) : \E i \in CountedIn(waves[k]) : logs[i].actor = a

(* C17 witness: two actors are required, and a bin wave and a window wave   *)
(* are emitted.                                                             *)
C17_Witness ==
  /\ Returned
  /\ settings.waveMinActors = 2
  /\ \E k \in 1..Len(waves) : waves[k].method = "bin" /\ Len(waves[k].actors) = 2
  /\ \E k \in 1..Len(waves) : waves[k].method = "window" /\ Len(waves[k].actors) = 2


WindowWaves == SelectSeq(waves, LAMBDA w : w.method = "window")

(* The events of the dataset with a wave's action and target. *)
EventsOfKey(w) ==
  {i \in 1..Len(logs) : burstGroupKey(logs[i])[1] = w.action /\ burstGroupKey(logs[i])[2] = w.target}

SpanSeconds == SetMax({TimeOf(logs[i]) : i \in 1..Len(logs)}) - SetMin({TimeOf(logs[i]) : i \in 1..Len(logs)})

(* (count - expected) / sqrt(expected) in units of 1 / Scale, with          *)
(* expected = events of the key / dataset span * window width.              *)
PoissonZ(w) ==
  LET expected == (Cardinality(EventsOfKey(w)) * settings.burstWindowSeconds * Scale) \div SpanSeconds
  IN ((Cardinality(CountedIn(w)) * Scale - expected) \div ISqrt(expected)) * (Scale \div 1000)

(* C18: every window wave has zScore >= 2.5, the Poisson z of its count     *)
(* against the key's dataset-wide rate; at most 250 are emitted, highest    *)
(* zScore first, and no two of them have the same (action, target).         *)
C18_WindowWavesPoissonTopOnePerKey ==
  Returned =>
    /\ Len(WindowWaves) <= MaxBursts
    /\ \A k \in 1..Len(WindowWaves) :
         /\ WindowWaves[k].zScore >= 25 * (Scale \div 10)
         /\ WindowWaves[k].zScore = PoissonZ(WindowWaves[k])
    /\ \A j, k \in 1..Len(WindowWaves) :
         /\ j < k => WindowWaves[j].zScore >= WindowWaves[k].zScore
         /\ (WindowWaves[j].action = WindowWaves[k].action
             /\ WindowWaves[j].target = WindowWaves[k].target) => j = k


(* The events of key that lie in the closed window of w. *)
InWindow(w, key) ==
  {i \in 1..Len(logs) : /\ burstGroupKey(logs[i]) = key
                        /\ w.windowStart <= TimeOf(logs[i])
                        /\ TimeOf(logs[i]) <= w.windowEnd}

(* The zScore of a window of count events of a key with n events in all. *)
ZOfCount(count, n) ==
  LET expected == (n * settings.burstWindowSeconds * Scale) \div SpanSeconds
  IN ((count * Scale - expected) \div ISqrt(expected)) * (Scale \div 1000)

RECURSIVE IsSubseq(_, _)
IsSubseq(s, t) ==
  IF s = <<>> THEN TRUE
  ELSE IF t = <<>> THEN FALSE
  ELSE IF Head(s) = Head(t) THEN IsSubseq(Tail(s), Tail(t))
  ELSE IsSubseq(s, Tail(t))

(* C20: in every scorecard suspiciousLinks and sharedLinks are              *)
(* subsequences of links, whatever link strings normalizeLinks accepts.     *)
C20_LinkListsAreSubsequences ==
  Returned =>
    \A i \in 1..Len(scorecards) :
      /\ IsSubseq(Card(i).suspiciousLinks, Card(i).links)
      /\ IsSubseq(Card(i).sharedLinks, Card(i).links)

C27_NoWindowWaveWithinOneWindow ==
  (Ended /\ (Len(ValidLogs(logs)) < 2
             \/ SetMax({TimeOf(l) : l \in Range(ValidLogs(logs))})
                  - SetMin({TimeOf(l) : l \in Range(ValidLogs(logs))})
                <= Max2(1, settings.burstWindowSeconds)))
    => WindowWaves = <<>>

(* C27 witness: three events of two actors on one target, the first and the *)
(* last exactly one burst window apart; a bin wave is emitted.              *)
C27_Witness ==
  /\ Returned
  /\ Len(logs) = 3
  /\ \A i \in 1..3 : logs[i].action = "follow" /\ logs[i].target = "c"
  /\ {logs[i].actor : i \in 1..3} = {"a", "b"}
  /\ SpanSeconds = settings.burstWindowSeconds
  /\ waves # <<>>

ReportedStages == [i \in 1..Len(progress) |-> progress[i].stage]

ReportedPcts == [i \in 1..Len(progress) |-> progress[i].pct]

(* C28: a call on non-empty logs that returns has reported start, profiles, *)
(* graph, clusters, clusters, waves, scorecards, done with pct 0, 15, 30,   *)
(* 38, 45, 60, 90, 100; a call on empty logs has reported (start, 0) only;  *)
(* pct never decreases and 'done' is reported last, by a call that returns. *)
C28_ProgressSequence ==
  /\ \A i, j \in 1..Len(progress) : i <= j => progress[i].pct <= progress[j].pct
  /\ \A i \in 1..Len(progress) :
       /\ progress[i].pct \in 0..100
       /\ progress[i].stage = "done" => i = Len(progress) /\ Returned /\ logs # <<>>
  /\ (Returned /\ logs = <<>>) => progress = <<[stage |-> "start", pct |-> 0]>>
  /\ (Returned /\ logs # <<>>) =>
       /\ ReportedStages = <<"start", "profiles", "graph", "clusters", "clusters", "waves",
                             "scorecards", "done">>
       /\ ReportedPcts = <<0, 15, 30, 38, 45, 60, 90, 100>>

(* C28 witness: a call on two events has returned after eight reports.      *)
C28_Witness ==
  /\ Returned
  /\ Len(logs) = 2
  /\ Len(progress) = 8

(* C30: a window wave counts only events whose action and target are its   *)
(* own action and target, and events of different (action, target) pairs    *)
(* never fall under one sliding-window key, whatever the identifiers.       *)
C30_WindowKeysSeparatePairs ==
  Returned =>
    /\ \A k \in 1..Len(WindowWaves) :
         \A i \in CountedIn(WindowWaves[k]) :
           /\ logs[i].action = WindowWaves[k].action
           /\ logs[i].target = WindowWaves[k].target
    /\ \A i, j \in 1..Len(logs) :
         burstGroupKey(logs[i]) = burstGroupKey(logs[j])
           => logs[i].action = logs[j].action /\ logs[i].target = logs[j].target

WavesHolding(actor) == {k \in 1..Len(waves) : Has(waves[k].actors, actor)}

WaveKey(k) == IF waves[k].method = "bin" THEN binWaveKey(waves[k]) ELSE windowWaveKey(waves[k])

(* C23: the burstActions count of an actor, from which coordinationScore =  *)
(* min(burstActions / totalActions, 1) is taken, is the number of emitted   *)
(* waves that list the actor; no two distinct waves have the same key,      *)
(* whatever the identifiers.                                                *)
C23_BurstActionsCountsWaves ==
  Returned =>
    /\ \A j, k \in 1..Len(waves) : WaveKey(j) = WaveKey(k) => j = k
    /\ \A i \in 1..Len(scorecards) :
         LET held == Cardinality(WavesHolding(Card(i).actor))
             total == Len(LogsOfActor(logs, Card(i).actor))
         IN /\ burstActionsOf(waves, Card(i).actor) = held
            /\ Card(i).coordinationScore =
                 (IF total > 0 THEN Min2((held * Scale) \div total, Scale) ELSE 0)

(* The events of an actor; every timestamp of SpecPace parses. *)
EventsOf(actor) == {i \in 1..Len(logs) : logs[i].actor = actor}

(* The largest number of the actor's events in a closed window of W seconds *)
(* that starts at one of them.                                              *)
MaxInWindow(actor, W) ==
  SetMax({Cardinality({j \in EventsOf(actor) : /\ TimeOf(logs[e]) <= TimeOf(logs[j])
                                              /\ TimeOf(logs[j]) <= TimeOf(logs[e]) + W})
            : e \in EventsOf(actor)})

TimesOf(actor) == {TimeOf(logs[i]) : i \in EventsOf(actor)}

(* The gaps between consecutive event times of an actor that exceed G       *)
(* seconds, as pairs <<earlier, later>>.                                    *)
SessionBreaks(actor, G) ==
  {p \in TimesOf(actor) \X TimesOf(actor) :
     /\ p[2] - p[1] > G
     /\ ~\E t \in TimesOf(actor) : p[1] < t /\ t < p[2]}

RECURSIVE SumOfGaps(_)
SumOfGaps(ps) ==
  IF ps = {} THEN 0
  ELSE LET p == CHOOSE q \in ps : TRUE IN (p[2] - p[1]) + SumOfGaps(ps \ {p})

(* C25: for an actor with events, sessionCount is 1 + the number of gaps    *)
(* between consecutive timestamps above the session gap; the session        *)
(* durations and the separating gaps add up to last - first timestamp;      *)
(* maxGapMinutes >= avgGapMinutes, both 0 exactly when there is one         *)
(* session and both above the session gap otherwise.                        *)
C25_SessionsSplitAtLongGaps ==
  Returned =>
    \A i \in 1..Len(scorecards) :
      EventsOf(Card(i).actor) # {} =>
        LET G == Max2(1, settings.sessionGapMinutes) * 60
            breaks == SessionBreaks(Card(i).actor, G)
            times == actorTimes(logs, Card(i).actor)
            r == sessionScan(times, 2, G, times[1], <<>>, <<>>)
        IN /\ Card(i).sessionCount = 1 + Cardinality(breaks)
           /\ Len(r.durations) = Card(i).sessionCount
           /\ \A k \in 1..Len(r.durations) : r.durations[k] >= 0
           /\ Range(r.gaps) = {p[2] - p[1] : p \in breaks}
           /\ SumSeq(r.durations) + SumSeq(r.gaps) = SetMax(TimesOf(Card(i).actor)) - SetMin(TimesOf(Card(i).actor))
           /\ Card(i).maxSessionGapMinutes >= Card(i).avgSessionGapMinutes
           /\ Card(i).sessionCount = 1 <=> Card(i).maxSessionGapMinutes = 0
           /\ Card(i).sessionCount = 1 <=> Card(i).avgSessionGapMinutes = 0
           /\ Card(i).sessionCount > 1 =>
                /\ Card(i).avgSessionGapMinutes > settings.sessionGapMinutes * Scale
                /\ Card(i).avgSessionGapMinutes = (SumOfGaps(breaks) * Scale) \div (60 * Cardinality(breaks))
                /\ Card(i).maxSessionGapMinutes = (SetMax({p[2] - p[1] : p \in breaks}) * Scale) \div 60

(* C25 witness: an actor with two sessions, the first of two events exactly *)
(* the session gap apart.                                                   *)
C25_Witness ==
  /\ Returned
  /\ \E i \in 1..Len(scorecards) :
       /\ Card(i).sessionCount = 2
       /\ \E s, t \in TimesOf(Card(i).actor) : t - s = settings.sessionGapMinutes * 60

(* The mean of the amounts of an actor's events is -1. *)
MeanAmountIsMinusOne(actor) ==
  LET own == {i \in EventsOf(actor) : IsDefined(logs[i].amount)}
  IN /\ Cardinality(own) >= 2
     /\ SumSeq([i \in 1..Len(logs) |-> IF i \in own THEN Val(logs[i].amount) ELSE 0])
          = 0 - Cardinality(own)

(* C21: a score whose formula divides by zero is 0: rapidActionScore when   *)
(* rapidActionsPerMinuteThreshold = 0, fraudTxScore when the mean amount is *)
(* -1, density and conductance when their denominators are 0,               *)
(* coordinationScore, lowDiversityScore and reciprocalRate when the actor   *)
(* has no action or no out-neighbour; no score is NaN.                      *)
C21_ZeroDivisorGivesZero ==
  Returned =>
    /\ \A i \in 1..Len(scorecards) :
         /\ settings.rapidActionsPerMinuteThreshold = 0 => Card(i).rapidActionScore = 0
         /\ MeanAmountIsMinusOne(Card(i).actor) => Card(i).fraudTxScore = 0
         /\ EventsOf(Card(i).actor) = {} =>
              Card(i).coordinationScore = 0 /\ Card(i).lowDiversityScore = 0
         /\ positiveOut(edges, Card(i).actor) = {} => Card(i).reciprocalRate = 0
         /\ Card(i).fraudTxScore # NaN
         /\ Card(i).sybilScore # NaN
    /\ \A k \in 1..Len(clusters) :
         /\ Len(clusters[k].members) = 1 => clusters[k].density = 0
         /\ (\A e \in Range(edges) : ~Has(clusters[k].members, e.source))
              => clusters[k].conductance = 0


(* The bucket kept for a route key and a client id, <<>> when there is none. *)
BucketOf(b, key, client) ==
  LET k == splitColon(key) \o splitColon(client)
  IN IF k \in DOMAIN b THEN <<b[k]>> ELSE <<>>

(* The recorded calls for key and client granted at a time in [from, to). *)
GrantsIn(cs, key, client, from, to) ==
  Cardinality({i \in 1..Len(cs) : /\ cs[i].key = key /\ cs[i].client = client
                                  /\ cs[i].allowed
                                  /\ from <= cs[i].at /\ cs[i].at < to})

C29_Step ==
  calls' # calls =>
    LET c == calls'[Len(calls')]
        before == BucketOf(buckets, c.key, c.client)
        after == BucketOf(buckets', c.key, c.client)
        windowMs == Max2(1000, c.windowMs)
        max == Max2(1, c.max)
    IN /\ after # <<>>
       /\ (before = <<>> \/ c.at >= before[1].resetAt)
            => c.allowed /\ after[1] = [count |-> 1, resetAt |-> c.at + windowMs]
       /\ ~c.allowed => after = before
       /\ c.remaining >= 0
       /\ GrantsIn(calls', c.key, c.client, after[1].resetAt - windowMs, after[1].resetAt) <= max
       /\ \A r \in Requests, key \in {"fetch_base", "scan_profile"} :
            <<key, getClientId(r)>> # <<c.key, c.client>>
              => BucketOf(buckets', key, getClientId(r)) = BucketOf(buckets, key, getClientId(r))

(* C29: for the calls of rateLimit with one route key and one client id, at *)
(* most max(1, max) of the calls of one bucket lifetime (from the creating  *)
(* call to resetAt = creation + max(1000, windowMs)) are allowed; a call at *)
(* or after resetAt starts a new bucket with count 1; a denied call leaves  *)
(* count and resetAt unchanged; remaining is never negative; a call for     *)
(* another key or client id does not change this bucket.                    *)
C29_BucketGrantsAtMostMax == [][C29_Step]_vars

(* A client is granted the one call of a bucket with max below its floor,   *)
(* is denied the second call, and is granted again in a new bucket after    *)
(* resetAt.                                                                 *)
C29_Witness ==
  /\ Len(calls) = 3
  /\ \A i \in 1..3 : calls[i].key = "fetch_base" /\ calls[i].client = "10.0.0.1"
  /\ calls[1].allowed /\ ~calls[2].allowed /\ calls[3].allowed
  /\ calls[3].at >= calls[1].at + 1000
  /\ BucketOf(buckets, "fetch_base", "10.0.0.1") = <<[count |-> 1, resetAt |-> calls[3].at + 1000]>>

(* C22: every route handler that makes outbound requests calls rateLimit    *)
(* before its first outbound fetch, and answers 429 without any outbound    *)
(* fetch when rateLimit denies the call.                                    *)
C22_RateLimitBeforeOutboundFetch ==
  response.served > 0 =>
    /\ Has(response.steps, "fetch") => response.steps[1] = "rateLimit"
    /\ response.denied => response.status = 429 /\ ~Has(response.steps, "fetch")

====
